---- MODULE Spec2Model ----
(***************************************************************************)
(* A model of the paginated-list custom element                            *)
(* (src/assets/paginated-list.js) together with the view-transition        *)
(* bookkeeping of src/assets/utilities.js it synchronises with.            *)
(*                                                                         *)
(* One JavaScript task (a lifecycle callback, an observer callback, the    *)
(* continuation of an awaited promise, an idle callback) is one action:    *)
(* the browser runs each to completion, and the microtasks it queues       *)
(* (the continuation of a render whose promise has just been resolved)     *)
(* run before the next task, so they belong to the same action.            *)
(*                                                                         *)
(* The other components of the theme are modelled beside it, each with a   *)
(* specification of its own: the cart discount component                   *)
(* (src/assets/cart-discount.js), debounce (src/assets/utilities.js) and   *)
(* the header menu (src/unnamed/part_000).                                 *)
(***************************************************************************)
EXTENDS Integers, Sequences, FiniteSets

\* ------------------------------------------------------------------ bounds
\* The grid's last-page attribute.
LastPage == 3
\* The most cards one server-rendered page holds.
MaxCards == 1
\* The most galleries the list comes to hold, and the media containers of one.
MaxGalleries == 3
MaxContainers == 2
\* How often connectedCallback runs (1 + the number of re-insertions).
MaxConnects == 2
\* An observer callback is delivered only while fewer than this many renders
\* and observer callbacks are suspended.
MaxSuspended == 2
\* How many view transitions are started.
MaxTransitions == 2
\* The largest offset the user scrolls to.
MaxScroll == 1
\* Layout: the document position of the grid's top edge and the height of a
\* card (one card per row).
GridTop == 1
CardHeight == 2

Types == {"next", "previous"}

\* What getSectionHTML resolves to: the empty string, markup without a
\* [ref="grid"] element, or markup whose grid holds nCards cards of `page`
\* (the server renders at least one card on a page up to last-page).
Html(p) ==
  {[empty |-> TRUE, hasGrid |-> FALSE, nCards |-> 0, page |-> p],
   [empty |-> FALSE, hasGrid |-> FALSE, nCards |-> 0, page |-> p]}
  \cup {[empty |-> FALSE, hasGrid |-> TRUE, nCards |-> n, page |-> p] : n \in 1..MaxCards}

VARIABLES
  refs,        \* which of this.refs exist: grid, viewMorePrevious, viewMoreNext
  cards,       \* this.refs.cards: the data-page of each card of the grid, in order
  pages,       \* this.pages: a Map from page number to HTML
  resolvePagePromise, \* #resolveNextPagePromise / #resolvePreviousPagePromise, per type: 0 is null, i > 0 the resolver of the promise renders[type][i] awaits
  fetches,     \* the #fetchPage calls awaiting sectionRenderer.getSectionHTML: how many per type and page
  renders,     \* per type, the #render...Page calls suspended at `await promise`, oldest first: the page each is rendering
  idle,        \* pending requestIdleCallback callbacks, per type
  location,    \* window.location.href: its page parameter and its hash
  history,     \* the URLs pushed with history.pushState, oldest first
  scrollY,     \* window.scrollY
  connected,   \* the element is in the document
  observing,   \* infinityScrollObserver observes the two sentinels
  connects,    \* how often connectedCallback has run
  viewTransition, \* viewTransition.current: 0 is undefined, t > 0 the finished promise of transition t
  transitions, \* the transitions started and not yet finished, oldest first: "active" or "skipped"
  started,     \* how many transitions document.startViewTransition has started
  suspended,   \* the observer callbacks suspended at `await viewTransition.current`, oldest first
  spliced,     \* every grid.append / grid.prepend made, oldest first
  failed,      \* the getSectionHTML calls that rejected: how many per type and page
  imageRatioSetting, \* #imageRatioSetting: Null or the data-image-ratio stored
  galleries,   \* the .card-gallery elements of the list, in document order
  raf,         \* the callbacks queued with requestAnimationFrame, oldest first
  listeners,   \* the load listeners added to gallery images, oldest first
  caches,      \* productRatioCache of each #fixAdaptiveAspectRatios call
  applications, \* every #applyAspectRatioToGallery call made, oldest first
  pills,       \* cart-discount: the data-discount-code of each .cart-discount__pill, in document order
  activeFetch, \* cart-discount: #activeFetch, 0 is null, c > 0 the AbortController of call c
  requests,    \* cart-discount: the cart update requests awaiting their response, oldest first
  cartDiscountError, \* cart-discount: refs.cartDiscountError carries the class `hidden`
  calls,       \* cart-discount: every applyDiscount / removeDiscount call made, oldest first, with what it did
  now,         \* the time in milliseconds
  timeout,     \* debounce: the variable `timeout` of each debounced function, 0 is undefined, else a timer id
  timers,      \* the browser's list of active timers: id, callback, arguments, time due
  timerIds,    \* how many timers setTimeout has created
  debounceLog, \* per debounced function: the calls made, what the last cancel() covered, the invocations of fn
  activeItem,  \* header-menu: #state.activeItem, Null or a menu item
  ariaExpanded, \* header-menu: ariaExpanded of the host and of each menu item
  overflowExpanded, \* header-menu: dataset.overflowExpanded of the host
  submenuHeight, \* header-menu: the --submenu-height style property of the host
  animating,   \* header-menu: the menu items that carry data-animating
  overflow,    \* header-menu: the menu item of the first [slot="overflow"] element, Null if nothing overflows
  menuLog      \* header-menu: how many activate / deactivate calls were made, which was the last activate, how many resizes

vars == <<refs, cards, pages, resolvePagePromise, fetches, renders, idle,
          location, history, scrollY, connected, observing, connects,
          viewTransition,
          transitions, started, suspended, spliced, failed,
          imageRatioSetting, galleries, raf, listeners, caches, applications,
          pills, activeFetch, requests, cartDiscountError, calls,
          now, timeout, timers, timerIds, debounceLog,
          activeItem, ariaExpanded, overflowExpanded, submenuHeight, animating,
          overflow, menuLog>>

\* What the list's own methods leave alone.
lifecycle == <<connected, observing, connects>>
transitionVars == <<viewTransition, transitions, started>>
\* What the aspect-ratio normaliser works on.
galleryVars == <<galleries, listeners, caches, applications>>
\* What the page cache and the scroll renderer work on.
listVars == <<refs, cards, pages, resolvePagePromise, fetches, renders, idle,
              location, history, scrollY, suspended, spliced, failed>>
\* #imageRatioSetting is null.
Null == "null"
\* What the cart discount component works on (src/assets/cart-discount.js).
cartVars == <<pills, activeFetch, requests, cartDiscountError, calls>>
\* The clock, the browser's timers and the debounced functions
\* (src/assets/utilities.js, debounce).
timerVars == <<now, timeout, timers, timerIds, debounceLog, menuLog>>
\* What the header menu works on (src/unnamed/part_000).
menuVars == <<activeItem, ariaExpanded, overflowExpanded, submenuHeight, animating, overflow>>
\* The components of the page other than the paginated list.
components == <<cartVars, timerVars, menuVars>>
\* The debounced functions: one of any caller, and the two of the header menu.
Debounced == {"fn", "activateHandler", "deactivate"}
\* The menu items of the header menu.
Items == {"a", "b"}

\* The state the component's methods read and write, as one value.
State ==
  [refs |-> refs, cards |-> cards, pages |-> pages,
   resolvePagePromise |-> resolvePagePromise, fetches |-> fetches,
   renders |-> renders, idle |-> idle, location |-> location,
   history |-> history, scrollY |-> scrollY, transitions |-> transitions,
   spliced |-> spliced, failed |-> failed, raf |-> raf]

Commit(s) ==
  /\ refs' = s.refs
  /\ cards' = s.cards
  /\ pages' = s.pages
  /\ resolvePagePromise' = s.resolvePagePromise
  /\ fetches' = s.fetches
  /\ renders' = s.renders
  /\ idle' = s.idle
  /\ location' = s.location
  /\ history' = s.history
  /\ scrollY' = s.scrollY
  /\ spliced' = s.spliced
  /\ failed' = s.failed
  /\ raf' = s.raf

\* ------------------------------------------------------------- pure helpers
Undefined == [defined |-> FALSE]

MapSet(m, k, v) == [x \in (DOMAIN m) \cup {k} |-> IF x = k THEN v ELSE m[x]]

RemoveAt(seq, i) == [j \in 1..(Len(seq) - 1) |-> IF j < i THEN seq[j] ELSE seq[j + 1]]

\* Multisets of calls, as functions from a call's type and page to a count > 0.
Count(b, k) == IF k \in DOMAIN b THEN b[k] ELSE 0
BagAdd(b, k) == MapSet(b, k, Count(b, k) + 1)
BagRemove(b, k) ==
  [x \in {y \in DOMAIN b : y # k \/ b[y] > 1} |-> IF x = k THEN b[x] - 1 ELSE b[x]]

\* Layout: getBoundingClientRect().top of the i-th card of the grid, with
\* the window scrolled to y (viewport-relative).
RectTop(i, y) == GridTop + (i - 1) * CardHeight - y

\* A view transition is on screen.
TransitionActive(s) == \E i \in 1..Len(s.transitions) : s.transitions[i].state = "active"

\* #processNewElements (lines 206-211): the normalisation of the galleries is
\* left to the next animation frame.
processNewElements(s) ==
  [s EXCEPT !.raf = Append(@, [kind |-> "process", galleries |-> <<>>, aspectRatio |-> <<>>])]

\* #getLastPage
getLastPage(s) == IF ~s.refs.grid THEN 0 ELSE LastPage

\* #getPage without `url.hash = ''`.
getPage_keepsHash(s, type) ==
  IF Len(s.cards) = 0 THEN Undefined
  ELSE LET targetCard == s.cards[IF type = "previous" THEN 1 ELSE Len(s.cards)]
           page == IF type = "previous" THEN targetCard - 1 ELSE targetCard + 1
           url == [s.location EXCEPT !.page = page]
       IN [defined |-> TRUE, page |-> page, url |-> url]

\* #getPage taking the first card for either type.
getPage_firstCard(s, type) ==
  IF Len(s.cards) = 0 THEN Undefined
  ELSE LET targetCard == s.cards[1]
           page == IF type = "previous" THEN targetCard - 1 ELSE targetCard + 1
           url == [s.location EXCEPT !.page = page, !.hash = ""]
       IN [defined |-> TRUE, page |-> page, url |-> url]

\* #getPage: the page next to the first or last card, and its URL
getPage(s, type) ==
  IF Len(s.cards) = 0 THEN Undefined
  ELSE LET targetCard == s.cards[IF type = "previous" THEN 1 ELSE Len(s.cards)]
           page == IF type = "previous" THEN targetCard - 1 ELSE targetCard + 1
           url == [s.location EXCEPT !.page = page, !.hash = ""]
       IN [defined |-> TRUE, page |-> page, url |-> url]

\* #shouldUsePage without the comparison with the last page.
shouldUsePage_noLastPage(s, pageInfo) ==
  IF ~pageInfo.defined THEN FALSE
  ELSE IF pageInfo.page < 1 THEN FALSE
  ELSE TRUE

\* #shouldUsePage without the lower bound of line 97.
shouldUsePage_noFirstPage(s, pageInfo) ==
  IF ~pageInfo.defined THEN FALSE
  ELSE IF pageInfo.page > getLastPage(s) THEN FALSE
  ELSE TRUE

\* #shouldUsePage
shouldUsePage(s, pageInfo) ==
  IF ~pageInfo.defined THEN FALSE
  ELSE IF pageInfo.page > getLastPage(s) \/ pageInfo.page < 1 THEN FALSE
  ELSE TRUE

\* #getGridForPage without the test for the [ref="grid"] element.
getGridForPage_noGridCheck(s, page) ==
  IF page \notin DOMAIN s.pages THEN Undefined
  ELSE LET pageHTML == s.pages[page] IN
       IF pageHTML.empty THEN Undefined
       ELSE [defined |-> TRUE, items |-> [i \in 1..pageHTML.nCards |-> pageHTML.page]]

\* #getGridForPage: the cards of the cached page, or undefined
getGridForPage(s, page) ==
  IF page \notin DOMAIN s.pages THEN Undefined
  ELSE LET pageHTML == s.pages[page] IN
       IF pageHTML.empty THEN Undefined
       ELSE IF ~pageHTML.hasGrid THEN Undefined
       ELSE [defined |-> TRUE, items |-> [i \in 1..pageHTML.nCards |-> pageHTML.page]]

\* ------------------------------------------------------------- #fetchPage
\* lines 114-118, up to the await: the request is issued
fetchPage(s, type) ==
  LET page == getPage(s, type) IN
  IF ~page.defined \/ ~shouldUsePage(s, page) THEN s
  ELSE [s EXCEPT !.fetches = BagAdd(@, [type |-> type, page |-> page.page])]

\* ------------------------------------------------------- #renderNextPage
\* The append without the requestIdleCallback of lines 153-155.
renderNextPageInsert_noIdle(s, nextPage, nextPageItemElements) ==
  [processNewElements(s) EXCEPT
            !.cards = @ \o nextPageItemElements,
            !.spliced = Append(@, [type |-> "next", page |-> nextPage.page,
                                   n |-> Len(nextPageItemElements),
                                   inTransition |-> TransitionActive(s)]),
            !.history = Append(@, nextPage.url),
            !.location = nextPage.url]

\* The append calling #fetchPage('next') at once instead of at idle time.
renderNextPageInsert_fetchesNow(s, nextPage, nextPageItemElements) ==
  fetchPage(
    [processNewElements(s) EXCEPT
            !.cards = @ \o nextPageItemElements,
            !.spliced = Append(@, [type |-> "next", page |-> nextPage.page,
                                   n |-> Len(nextPageItemElements),
                                   inTransition |-> TransitionActive(s)]),
            !.history = Append(@, nextPage.url),
            !.location = nextPage.url], "next")

\* lines 147-155: append, push the URL, queue the next prefetch
renderNextPageInsert(s, nextPage, nextPageItemElements) ==
  [processNewElements(s) EXCEPT
            !.cards = @ \o nextPageItemElements,
            !.spliced = Append(@, [type |-> "next", page |-> nextPage.page,
                                   n |-> Len(nextPageItemElements),
                                   inTransition |-> TransitionActive(s)]),
            !.history = Append(@, nextPage.url),
            !.location = nextPage.url,
            !.idle = [@ EXCEPT !["next"] = @ + 1]]

\* #renderNextPage keeping a resolver that is already set (`??=`).
renderNextPage_keepsResolver(s) ==
  IF ~s.refs.grid THEN s
  ELSE LET nextPage == getPage(s, "next") IN
  IF ~nextPage.defined \/ ~shouldUsePage(s, nextPage) THEN s
  ELSE LET nextPageItemElements == getGridForPage(s, nextPage.page) IN
  IF ~nextPageItemElements.defined
  THEN [s EXCEPT !.renders = [@ EXCEPT !["next"] = Append(@, nextPage)],
                 !.resolvePagePromise =
                    [@ EXCEPT !["next"] = IF @ = 0 THEN Len(s.renders["next"]) + 1 ELSE @]]
  ELSE renderNextPageInsert(s, nextPage, nextPageItemElements.items)

\* lines 128-145, up to `await promise`
renderNextPage(s) ==
  IF ~s.refs.grid THEN s
  ELSE LET nextPage == getPage(s, "next") IN
  IF ~nextPage.defined \/ ~shouldUsePage(s, nextPage) THEN s
  ELSE LET nextPageItemElements == getGridForPage(s, nextPage.page) IN
  IF ~nextPageItemElements.defined
  THEN [s EXCEPT !.renders = [@ EXCEPT !["next"] = Append(@, nextPage)],
                 !.resolvePagePromise = [@ EXCEPT !["next"] = Len(s.renders["next"]) + 1]]
  ELSE renderNextPageInsert(s, nextPage, nextPageItemElements.items)

\* lines 143-155: the render resumes after `await promise`
renderNextPageResume(s, i) ==
  LET nextPage == s.renders["next"][i]
      nextPageItemElements == getGridForPage(s, nextPage.page)
      t == [s EXCEPT !.renders = [@ EXCEPT !["next"] = RemoveAt(@, i)]] IN
  IF ~nextPageItemElements.defined THEN t
  ELSE renderNextPageInsert(t, nextPage, nextPageItemElements.items)

\* --------------------------------------------------- #renderPreviousPage
\* The prepend measuring the first card against the viewport only (without
\* `+ window.scrollY`).
renderPreviousPageInsert_viewportRelative(s, previousPage, previousPageItemElements, anchored) ==
  LET scrollTop == s.scrollY
      hasFirst == Len(s.cards) > 0
      oldHeight == IF hasFirst THEN GridTop - s.scrollY ELSE 0
      k == Len(previousPageItemElements)
      yAfter == IF anchored THEN s.scrollY + k * CardHeight ELSE s.scrollY
      newHeight == GridTop + k * CardHeight - yAfter
      heightDiff == newHeight - oldHeight
  IN [processNewElements(s) EXCEPT
               !.cards = previousPageItemElements \o @,
               !.spliced = Append(@, [type |-> "previous", page |-> previousPage.page,
                                      n |-> k,
                                      inTransition |-> \E i \in 1..Len(s.transitions) :
                                                         s.transitions[i].state = "active"]),
               !.history = Append(@, previousPage.url),
               !.location = previousPage.url,
               !.scrollY = IF hasFirst THEN scrollTop + heightDiff ELSE yAfter,
               !.idle = [@ EXCEPT !["previous"] = @ + 1]]

\* lines 176-200: prepend, push the URL, keep the view in place, queue the
\* next prefetch. `anchored`: whether the browser's scroll anchoring has
\* already moved the window when the layout is read after the prepend.
renderPreviousPageInsert(s, previousPage, previousPageItemElements, anchored) ==
  LET scrollTop == s.scrollY
      hasFirst == Len(s.cards) > 0
      oldHeight == IF hasFirst THEN RectTop(1, s.scrollY) + s.scrollY ELSE 0
      k == Len(previousPageItemElements)
      yAfter == IF anchored THEN s.scrollY + k * CardHeight ELSE s.scrollY
      newHeight == RectTop(k + 1, yAfter) + yAfter
      heightDiff == newHeight - oldHeight
  IN [processNewElements(s) EXCEPT
               !.cards = previousPageItemElements \o @,
               !.spliced = Append(@, [type |-> "previous", page |-> previousPage.page,
                                      n |-> k, inTransition |-> TransitionActive(s)]),
               !.history = Append(@, previousPage.url),
               !.location = previousPage.url,
               !.scrollY = IF hasFirst THEN scrollTop + heightDiff ELSE yAfter,
               !.idle = [@ EXCEPT !["previous"] = @ + 1]]

\* lines 158-174, up to `await promise`
renderPreviousPage(s, anchored) ==
  IF ~s.refs.grid THEN s
  ELSE LET previousPage == getPage(s, "previous") IN
  IF ~previousPage.defined \/ ~shouldUsePage(s, previousPage) THEN s
  ELSE LET previousPageItemElements == getGridForPage(s, previousPage.page) IN
  IF ~previousPageItemElements.defined
  THEN [s EXCEPT !.renders = [@ EXCEPT !["previous"] = Append(@, previousPage)],
                 !.resolvePagePromise = [@ EXCEPT !["previous"] = Len(s.renders["previous"]) + 1]]
  ELSE renderPreviousPageInsert(s, previousPage, previousPageItemElements.items, anchored)

\* lines 172-200: the render resumes after `await promise`
renderPreviousPageResume(s, i, anchored) ==
  LET previousPage == s.renders["previous"][i]
      previousPageItemElements == getGridForPage(s, previousPage.page)
      t == [s EXCEPT !.renders = [@ EXCEPT !["previous"] = RemoveAt(@, i)]] IN
  IF ~previousPageItemElements.defined THEN t
  ELSE renderPreviousPageInsert(t, previousPage, previousPageItemElements.items, anchored)

\* The completion of a fetch resuming the oldest suspended render of the type.
fetchPageResolved_resumesOldest(s, f, html, anchored) ==
  LET i == IF s.resolvePagePromise[f.type] = 0 THEN 0 ELSE 1
      t == [s EXCEPT !.fetches = BagRemove(@, f),
                     !.pages = MapSet(@, f.page, html),
                     !.resolvePagePromise = [@ EXCEPT ![f.type] = 0]]
  IN IF i = 0 THEN t
     ELSE IF f.type = "next" THEN renderNextPageResume(t, i)
     ELSE renderPreviousPageResume(t, i, anchored)

\* lines 118-125 calling and clearing the resolvers of both types.
fetchPageResolved_resolvesBoth(s, f, html, anchored) ==
  LET i == s.resolvePagePromise["next"]
      j == s.resolvePagePromise["previous"]
      t == [s EXCEPT !.fetches = BagRemove(@, f),
                     !.pages = MapSet(@, f.page, html),
                     !.resolvePagePromise = [type \in Types |-> 0]]
      u == IF i = 0 THEN t ELSE renderNextPageResume(t, i)
  IN IF j = 0 THEN u ELSE renderPreviousPageResume(u, j, anchored)

\* lines 118-125: getSectionHTML has resolved with html for the call f. The
\* resolver of the type's promise is called and the field cleared; the render
\* awaiting that promise continues in a microtask of the same task.
fetchPageResolved(s, f, html, anchored) ==
  LET i == s.resolvePagePromise[f.type]
      t == [s EXCEPT !.fetches = BagRemove(@, f),
                     !.pages = MapSet(@, f.page, html),
                     !.resolvePagePromise = [@ EXCEPT ![f.type] = 0]]
  IN IF i = 0 THEN t
     ELSE IF f.type = "next" THEN renderNextPageResume(t, i)
     ELSE renderPreviousPageResume(t, i, anchored)

\* A rejection that still runs lines 119-125 (as in a `finally`).
fetchPageRejected_resolves(s, f) ==
  LET i == s.resolvePagePromise[f.type]
      t == [s EXCEPT !.fetches = BagRemove(@, f),
                     !.failed = BagAdd(@, f),
                     !.resolvePagePromise = [@ EXCEPT ![f.type] = 0]]
  IN IF i = 0 THEN t
     ELSE IF f.type = "next" THEN renderNextPageResume(t, i)
     ELSE renderPreviousPageResume(t, i, FALSE)

\* line 118: getSectionHTML has rejected; #fetchPage ends with the exception
fetchPageRejected(s, f) ==
  [s EXCEPT !.fetches = BagRemove(@, f),
            !.failed = BagAdd(@, f)]

\* --------------------------------------------------- the observer callback
Entry == [target : {"viewMorePrevious", "viewMoreNext"}, isIntersecting : BOOLEAN]

\* A batch holds an entry for one sentinel or for both, in either order.
EntryLists ==
  {<<e>> : e \in Entry}
  \cup {x \in Entry \X Entry : x[1].target # x[2].target}

\* The loop of lines 71-79 leaving after the first intersecting entry.
processEntries_firstOnly(s, entries, anchored) ==
  LET intersecting == SelectSeq(entries, LAMBDA entry : entry.isIntersecting) IN
  IF intersecting = <<>> THEN s
  ELSE IF Head(intersecting).target = "viewMorePrevious"
  THEN renderPreviousPage(s, anchored)
  ELSE renderNextPage(s)

\* lines 71-79
RECURSIVE processEntries(_, _, _)
processEntries(s, entries, anchored) ==
  IF entries = <<>> THEN s
  ELSE LET entry == Head(entries)
           t == IF entry.isIntersecting
                THEN IF entry.target = "viewMorePrevious"
                     THEN renderPreviousPage(s, anchored)
                     ELSE renderNextPage(s)
                ELSE s
       IN processEntries(t, Tail(entries), anchored)

\* The callbacks awaiting the finished promise of transition t continue, in
\* the order they were suspended.
RECURSIVE resumeCallbacks(_, _, _, _)
resumeCallbacks(s, waiting, t, anchored) ==
  IF waiting = <<>> THEN s
  ELSE resumeCallbacks(
         IF Head(waiting).awaits = t
         THEN processEntries(s, Head(waiting).entries, anchored) ELSE s,
         Tail(waiting), t, anchored)

\* ------------------------------------------------ the aspect-ratio normaliser
\* The statements of a loop run one after another: each iteration works on
\* the value t the one before it has left.
\* Strings that are computed (aspect ratios) are sequences of characters; the
\* empty sequence stands for null and for a style that is not set.
NoRatio == <<>>

\* The values of data-image-ratio, the same on every card of a section.
Settings == {"square", "portrait", "landscape", "adapt"}

\* The values of data-product-id ("" when the attribute is missing or empty).
ProductIds == {"", "A"}

\* The natural sizes of the images that load, and of a broken one.
Sizes == {<<1600, 900>>, <<100, 2000>>}
Broken == <<0, 0>>

\* The galleries a page can bring: without an image, with an image that is
\* still loading, with an image that is complete (loaded or broken).
Gallery(id, imageRatio) ==
  [id : {id}, imageRatio : {imageRatio}, productId : ProductIds,
   img : {"none"}, size : {Broken}, applied : {FALSE}, ratio : {NoRatio},
   containers : {[c \in 1..MaxContainers |-> NoRatio]}]
  \cup [id : {id}, imageRatio : {imageRatio}, productId : ProductIds,
        img : {"loading"}, size : Sizes, applied : {FALSE}, ratio : {NoRatio},
        containers : {[c \in 1..MaxContainers |-> NoRatio]}]
  \cup [id : {id}, imageRatio : {imageRatio}, productId : ProductIds,
        img : {"complete"}, size : Sizes \cup {Broken}, applied : {FALSE},
        ratio : {NoRatio}, containers : {[c \in 1..MaxContainers |-> NoRatio]}]

\* The state the normaliser's methods read and write, as one value.
Normaliser ==
  [imageRatioSetting |-> imageRatioSetting, galleries |-> galleries, raf |-> raf,
   listeners |-> listeners, caches |-> caches, applications |-> applications]

CommitNormaliser(n) ==
  /\ galleries' = n.galleries
  /\ raf' = n.raf
  /\ listeners' = n.listeners
  /\ caches' = n.caches
  /\ applications' = n.applications

\* The gallery element with the given id, and its place in the document.
IndexOf(n, id) == CHOOSE i \in 1..Len(n.galleries) : n.galleries[i].id = id
GalleryOf(n, id) == n.galleries[IndexOf(n, id)]

naturalWidth(g) == IF g.img = "complete" THEN g.size[1] ELSE 0
naturalHeight(g) == IF g.img = "complete" THEN g.size[2] ELSE 0

\* #getUnprocessedGalleries (lines 217-219): the ids of the galleries without
\* the data-aspect-ratio-applied attribute, in document order.
getUnprocessedGalleries(n) ==
  LET unprocessed == SelectSeq(n.galleries, LAMBDA g : ~g.applied)
  IN [i \in 1..Len(unprocessed) |-> unprocessed[i].id]

\* Number.prototype.toString for a natural number.
Digit(d) == <<"0", "1", "2", "3", "4", "5", "6", "7", "8", "9">>[d + 1]

RECURSIVE Decimal(_)
Decimal(k) == IF k < 10 THEN <<Digit(k)>> ELSE Append(Decimal(k \div 10), Digit(k % 10))

\* Number.prototype.toFixed(3) of num/den: the multiple of 1/1000 nearest to
\* it, with three decimals. (Where num/den is exactly halfway, the double
\* nearest to num/den decides in the browser; no size drawn here is.)
toFixed3(num, den) ==
  LET k == (2000 * num + den) \div (2 * den)
  IN Decimal(k \div 1000)
       \o <<".", Digit((k \div 100) % 10), Digit((k \div 10) % 10), Digit(k % 10)>>

\* #getSafeImageAspectRatio with the clamping bounds swapped away: the raw
\* ratio is formatted.
getSafeImageAspectRatio_unclamped(width, height) == toFixed3(width, height)

\* #getSafeImageAspectRatio (lines 237-240)
getSafeImageAspectRatio(width, height) ==
  IF width > 10 * height THEN toFixed3(10, 1)
  ELSE IF 10 * width < height THEN toFixed3(1, 10)
  ELSE toFixed3(width, height)

\* ASPECT_RATIOS (lines 333-337)
ASPECT_RATIOS ==
  [square |-> <<"1">>, portrait |-> <<"0", ".", "8">>,
   landscape |-> <<"1", ".", "7", "7", "8">>]

\* #getAspectRatioValue (lines 344-346)
getAspectRatioValue(ratioSetting) ==
  IF ratioSetting \in DOMAIN ASPECT_RATIOS THEN ASPECT_RATIOS[ratioSetting] ELSE NoRatio

\* #applyAspectRatioToGallery setting the custom property only.
applyAspectRatioToGallery_propertyOnly(n, id, aspectRatio, from) ==
  [n EXCEPT !.galleries[IndexOf(n, id)] =
              [@ EXCEPT !.ratio = aspectRatio, !.applied = TRUE],
            !.applications = Append(@, [gallery |-> id, aspectRatio |-> aspectRatio,
                                        from |-> from])]

\* #applyAspectRatioToGallery (lines 247-260) with #markAsProcessed (lines
\* 225-228). `from` notes for the record which pass called, and whether the
\* ratio was computed from the image.
applyAspectRatioToGallery(n, id, aspectRatio, from) ==
  [n EXCEPT !.galleries[IndexOf(n, id)] =
              [@ EXCEPT !.ratio = aspectRatio,
                        !.containers = [c \in DOMAIN @ |-> aspectRatio],
                        !.applied = TRUE],
            !.applications = Append(@, [gallery |-> id, aspectRatio |-> aspectRatio,
                                        from |-> from])]

\* loadAndSetRatio (lines 287-297) of the gallery `id` in the pass `pass`
loadAndSetRatio(n, id, pass) ==
  LET gallery == GalleryOf(n, id)
      productId == gallery.productId IN
  IF naturalWidth(gallery) = 0 \/ naturalHeight(gallery) = 0 THEN n
  ELSE LET imgRatio == getSafeImageAspectRatio(naturalWidth(gallery), naturalHeight(gallery))
           t == IF productId # ""
                THEN [n EXCEPT !.caches[pass] = MapSet(@, productId, imgRatio)]
                ELSE n
       IN applyAspectRatioToGallery(t, id, imgRatio, [pass |-> pass, source |-> "image"])

\* lines 272-304: the body of the forEach of #fixAdaptiveAspectRatios
adaptGallery(n, id, pass) ==
  LET gallery == GalleryOf(n, id)
      productId == gallery.productId IN
  IF productId # "" /\ productId \in DOMAIN n.caches[pass]
  THEN applyAspectRatioToGallery(n, id, n.caches[pass][productId],
                                 [pass |-> pass, source |-> "cache"])
  ELSE IF gallery.img = "none"
  THEN applyAspectRatioToGallery(n, id, <<"1">>, [pass |-> pass, source |-> "default"])
  ELSE IF gallery.img = "complete" THEN loadAndSetRatio(n, id, pass)
  ELSE [n EXCEPT !.listeners = Append(@, [gallery |-> id, pass |-> pass])]

RECURSIVE adaptGalleries(_, _, _)
adaptGalleries(n, ids, pass) ==
  IF ids = <<>> THEN n
  ELSE CHOOSE r \in {adaptGalleries(t, Tail(ids), pass) :
                       t \in {adaptGallery(n, Head(ids), pass)}} : TRUE

\* #fixAdaptiveAspectRatios (lines 266-305)
fixAdaptiveAspectRatios(n) ==
  LET newCardGalleries == getUnprocessedGalleries(n) IN
  IF Len(newCardGalleries) = 0 THEN n
  ELSE adaptGalleries([n EXCEPT !.caches = Append(@, <<>>)], newCardGalleries,
                      Len(n.caches) + 1)

\* #applyFixedAspectRatio (lines 311-327), up to the second animation frame
applyFixedAspectRatio(n) ==
  IF n.imageRatioSetting = Null THEN n
  ELSE LET aspectRatio == getAspectRatioValue(n.imageRatioSetting) IN
  IF aspectRatio = NoRatio THEN n
  ELSE LET newCardGalleries == getUnprocessedGalleries(n) IN
  IF Len(newCardGalleries) = 0 THEN n
  ELSE [n EXCEPT !.raf = Append(@, [kind |-> "apply", galleries |-> newCardGalleries,
                                    aspectRatio |-> aspectRatio])]

\* lines 322-325: the callback of the second animation frame
RECURSIVE applyFixed(_, _, _)
applyFixed(n, ids, aspectRatio) ==
  IF ids = <<>> THEN n
  ELSE CHOOSE r \in {applyFixed(t, Tail(ids), aspectRatio) :
                       t \in {applyAspectRatioToGallery(n, Head(ids), aspectRatio,
                                                        [pass |-> 0, source |-> "fixed"])}} : TRUE

\* One callback of an animation frame: that of #processNewElements (lines
\* 208-210) or that of #applyFixedAspectRatio (lines 321-326).
runCallback(n, callback) ==
  IF callback.kind = "process"
  THEN IF n.imageRatioSetting = "adapt" THEN fixAdaptiveAspectRatios(n)
       ELSE applyFixedAspectRatio(n)
  ELSE applyFixed(n, callback.galleries, callback.aspectRatio)

\* The callbacks of one frame run in the order they were queued.
RECURSIVE runCallbacks(_, _)
runCallbacks(n, callbacks) ==
  IF callbacks = <<>> THEN n
  ELSE CHOOSE r \in {runCallbacks(t, Tail(callbacks)) :
                       t \in {runCallback(n, Head(callbacks))}} : TRUE

\* The load listeners of the image of gallery `id` run, each once, in the
\* order they were added.
RECURSIVE runListeners(_, _, _)
runListeners(n, waiting, id) ==
  IF waiting = <<>> THEN n
  ELSE CHOOSE r \in {runListeners(t, Tail(waiting), id) :
                       t \in {IF Head(waiting).gallery = id
                              THEN loadAndSetRatio(n, id, Head(waiting).pass) ELSE n}} : TRUE

\* #storeImageRatioSettings (lines 47-52): the data-image-ratio of the first
\* gallery, if there is one.
storeImageRatioSettings ==
  IF galleries = <<>> THEN imageRatioSetting ELSE galleries[1].imageRatio

\* ------------------------------------------------------------------ actions
\* cart-discount.js lines 18-21: no request has been made, and the error
\* element is hidden; the section shows no discount pill.
InitCartDiscount ==
  /\ pills = <<>>
  /\ activeFetch = 0
  /\ requests = <<>>
  /\ cartDiscountError = [hidden |-> TRUE]
  /\ calls = <<>>

\* utilities.js lines 137-138: no debounced function has been called, no
\* timer is set.
InitTimers ==
  /\ now = 0
  /\ timeout = [d \in Debounced |-> 0]
  /\ timers = {}
  /\ timerIds = 0
  /\ debounceLog = [d \in Debounced |-> [calls |-> <<>>, cancelled |-> 0, invoked |-> <<>>, events |-> 0]]
  /\ menuLog = [calls |-> 0, lastActivate |-> 0, resizes |-> 0]

\* part_000 lines 31-33: no item is active; the markup shows every submenu
\* closed, and every item fits.
InitHeaderMenu ==
  /\ activeItem = Null
  /\ ariaExpanded = [x \in Items \cup {"host"} |-> "false"]
  /\ overflowExpanded = "false"
  /\ submenuHeight = "0px"
  /\ animating = {}
  /\ overflow = Null

\* The components of the page other than the paginated list, as constructed.
InitComponents == InitCartDiscount /\ InitTimers /\ InitHeaderMenu

Init ==
  /\ refs \in [grid : BOOLEAN, viewMorePrevious : BOOLEAN, viewMoreNext : BOOLEAN]
  /\ \E p \in 1..LastPage, k \in 0..MaxCards :
       /\ cards = [i \in 1..k |-> p]
       /\ location = [page |-> p, hash |-> "#top"]
  /\ pages = <<>>
  /\ resolvePagePromise = [t \in Types |-> 0]
  /\ fetches = <<>>
  /\ renders = [t \in Types |-> <<>>]
  /\ idle = [t \in Types |-> 0]
  /\ history = <<>>
  /\ scrollY = 0
  /\ connected = FALSE
  /\ observing = FALSE
  /\ connects = 0
  /\ viewTransition = 0
  /\ transitions = <<>>
  /\ started = 0
  /\ suspended = <<>>
  /\ spliced = <<>>
  /\ failed = <<>>
  /\ imageRatioSetting = Null
  /\ galleries = <<>>
  /\ raf = <<>>
  /\ listeners = <<>>
  /\ caches = <<>>
  /\ applications = <<>>
  /\ InitComponents

\* connectedCallback (lines 34-42) with #observeViewMore (lines 61-88)
ConnectedCallback ==
  /\ ~connected
  /\ connects < MaxConnects
  /\ connected' = TRUE
  /\ connects' = connects + 1
  /\ Commit(fetchPage(fetchPage(State, "next"), "previous"))
  /\ observing' = (refs.viewMorePrevious /\ refs.viewMoreNext)
  /\ imageRatioSetting' = storeImageRatioSettings
  /\ UNCHANGED <<transitionVars, suspended, galleryVars>>
  /\ UNCHANGED components

\* disconnectedCallback (lines 54-59)
DisconnectedCallback ==
  /\ connected
  /\ connected' = FALSE
  /\ observing' = FALSE
  /\ UNCHANGED <<refs, cards, pages, resolvePagePromise, fetches, renders,
                 idle, location, history, scrollY, connects, transitionVars,
                 suspended, spliced, failed, imageRatioSetting, raf, galleryVars>>
  /\ UNCHANGED components

\* The observer's callback (lines 67-80) is delivered a batch of entries.
IntersectionCallback ==
  /\ observing
  /\ Len(renders["next"]) + Len(renders["previous"]) + Len(suspended) < MaxSuspended
  /\ \E entries \in EntryLists, anchored \in BOOLEAN :
       IF viewTransition # 0
       THEN /\ suspended' = Append(suspended, [entries |-> entries, awaits |-> viewTransition])
            /\ UNCHANGED <<refs, cards, pages, resolvePagePromise, fetches, renders,
                           idle, location, history, scrollY, spliced, failed, raf>>
       ELSE /\ Commit(processEntries(State, entries, anchored))
            /\ UNCHANGED suspended
  /\ UNCHANGED <<lifecycle, transitionVars, imageRatioSetting, galleryVars>>
  /\ UNCHANGED components

\* sectionRenderer.getSectionHTML resolves for one of the pending fetches.
FetchResolved ==
  /\ \E f \in DOMAIN fetches, anchored \in BOOLEAN :
       \E html \in Html(f.page) :
         Commit(fetchPageResolved(State, f, html, anchored))
  /\ UNCHANGED <<lifecycle, transitionVars, suspended, imageRatioSetting, galleryVars>>
  /\ UNCHANGED components

\* sectionRenderer.getSectionHTML rejects for one of the pending fetches.
FetchRejected ==
  /\ \E f \in DOMAIN fetches : Commit(fetchPageRejected(State, f))
  /\ UNCHANGED <<lifecycle, transitionVars, suspended, imageRatioSetting, galleryVars>>
  /\ UNCHANGED components

\* A callback queued with requestIdleCallback runs (lines 153-155, 198-200).
IdleCallback ==
  /\ \E type \in Types :
       /\ idle[type] > 0
       /\ Commit(fetchPage([State EXCEPT !.idle = [@ EXCEPT ![type] = @ - 1]], type))
  /\ UNCHANGED <<lifecycle, transitionVars, suspended, imageRatioSetting, galleryVars>>
  /\ UNCHANGED components

\* The user scrolls the window.
UserScroll ==
  /\ \E y \in 0..MaxScroll : y # scrollY /\ scrollY' = y
  /\ UNCHANGED <<refs, cards, pages, resolvePagePromise, fetches, renders,
                 idle, location, history, lifecycle, transitionVars, suspended,
                 spliced, failed, imageRatioSetting, raf, galleryVars>>
  /\ UNCHANGED components

\* startViewTransition (utilities.js lines 52-81) is called by some other
\* component and reaches document.startViewTransition: the browser skips the
\* transition on screen, if any, and starts the new one.
StartViewTransition ==
  /\ started < MaxTransitions
  /\ started' = started + 1
  /\ transitions' = Append([i \in 1..Len(transitions) |->
                              [transitions[i] EXCEPT !.state = "skipped"]],
                           [id |-> started + 1, state |-> "active"])
  /\ viewTransition' = IF viewTransition = 0 THEN started + 1 ELSE viewTransition
  /\ UNCHANGED <<refs, cards, pages, resolvePagePromise, fetches, renders,
                 idle, location, history, scrollY, lifecycle, suspended,
                 spliced, failed, imageRatioSetting, raf, galleryVars>>
  /\ UNCHANGED components

\* transition.finished resolves (utilities.js lines 75-79): the reaction of
\* startViewTransition clears viewTransition.current, then the observer
\* callbacks that awaited this promise continue.
TransitionFinished ==
  /\ \E i \in 1..Len(transitions), anchored \in BOOLEAN :
       LET t == transitions[i].id IN
       /\ transitions' = RemoveAt(transitions, i)
       /\ viewTransition' = 0
       /\ suspended' = SelectSeq(suspended, LAMBDA c : c.awaits # t)
       /\ Commit(resumeCallbacks([State EXCEPT !.transitions = RemoveAt(transitions, i)],
                                 suspended, t, anchored))
  /\ UNCHANGED <<lifecycle, started, imageRatioSetting, galleryVars>>
  /\ UNCHANGED components

\* The list in a browser that starts no view transition (one without the
\* View Transitions API, or with reduced motion: utilities.js lines 84-86).
Next ==
  \/ ConnectedCallback
  \/ DisconnectedCallback
  \/ IntersectionCallback
  \/ FetchResolved
  \/ FetchRejected
  \/ IdleCallback
  \/ UserScroll

Spec == Init /\ [][Next]_vars

\* The list in a browser that runs view transitions, with every ref present
\* and one card in the grid; it stays connected, every fetch succeeds and
\* the user leaves the scroll offset alone.
InitTransitions ==
  /\ Init
  /\ refs = [grid |-> TRUE, viewMorePrevious |-> TRUE, viewMoreNext |-> TRUE]
  /\ Len(cards) = 1

NextTransitions ==
  \/ ConnectedCallback
  \/ IntersectionCallback
  \/ FetchResolved
  \/ IdleCallback
  \/ StartViewTransition
  \/ TransitionFinished

SpecTransitions == InitTransitions /\ [][NextTransitions]_vars

\* sectionRenderer.getSectionHTML resolves with a page that holds the grid.
FetchSucceeded ==
  /\ \E f \in DOMAIN fetches, anchored \in BOOLEAN :
       \E html \in {h \in Html(f.page) : h.hasGrid} :
         Commit(fetchPageResolved(State, f, html, anchored))
  /\ UNCHANGED <<lifecycle, transitionVars, suspended, imageRatioSetting, galleryVars>>
  /\ UNCHANGED components

\* The list with every ref present and one card in the grid, in a browser
\* that starts no view transition, where every fetch succeeds with a page
\* that holds the grid. Every fetch completes and every idle callback runs.
NextLive ==
  \/ ConnectedCallback
  \/ DisconnectedCallback
  \/ IntersectionCallback
  \/ FetchSucceeded
  \/ IdleCallback

SpecLive ==
  /\ InitTransitions
  /\ [][NextLive]_vars
  /\ WF_vars(FetchSucceeded)
  /\ WF_vars(IdleCallback)

\* A render inserts the cards of a page, here one card with its gallery, at
\* the end or at the start of the grid, and calls #processNewElements (lines
\* 147-149, 182-184). Every card carries the section's data-image-ratio.
InsertCards ==
  /\ observing
  /\ Len(galleries) < MaxGalleries
  /\ \E imageRatio \in Settings \cup {Null}, atEnd \in BOOLEAN :
       /\ \A i \in 1..Len(galleries) : galleries[i].imageRatio = imageRatio
       /\ \E gallery \in Gallery(Len(galleries) + 1, imageRatio) :
            \E n \in {processNewElements(
                        [Normaliser EXCEPT !.galleries = IF atEnd THEN Append(@, gallery)
                                                          ELSE <<gallery>> \o @])} :
              CommitNormaliser(n)
  /\ UNCHANGED <<listVars, lifecycle, transitionVars, imageRatioSetting>>
  /\ UNCHANGED components

\* The browser renders a frame: the callbacks queued with
\* requestAnimationFrame before it run; those they queue wait for the next.
AnimationFrame ==
  /\ raf # <<>>
  /\ \E n \in {runCallbacks([Normaliser EXCEPT !.raf = <<>>], raf)} : CommitNormaliser(n)
  /\ UNCHANGED <<listVars, lifecycle, transitionVars, imageRatioSetting>>
  /\ UNCHANGED components

\* The image of a gallery finishes loading: it is complete, has its natural
\* size, and its load listeners run.
ImageLoad ==
  /\ \E i \in 1..Len(galleries) :
       /\ galleries[i].img = "loading"
       /\ \E n \in {runListeners(
                      [Normaliser EXCEPT !.galleries[i].img = "complete",
                                         !.listeners = SelectSeq(@, LAMBDA l : l.gallery # galleries[i].id)],
                      listeners, galleries[i].id)} :
            CommitNormaliser(n)
  /\ UNCHANGED <<listVars, lifecycle, transitionVars, imageRatioSetting>>
  /\ UNCHANGED components

\* The normaliser on its own: a list whose grid holds at most one card when
\* it is connected; what the renders do to the page cache, the history and
\* the scroll offset is left out.
InitGalleries ==
  /\ refs = [grid |-> TRUE, viewMorePrevious |-> TRUE, viewMoreNext |-> TRUE]
  /\ cards = <<>>
  /\ location = [page |-> 1, hash |-> ""]
  /\ pages = <<>>
  /\ resolvePagePromise = [t \in Types |-> 0]
  /\ fetches = <<>>
  /\ renders = [t \in Types |-> <<>>]
  /\ idle = [t \in Types |-> 0]
  /\ history = <<>>
  /\ scrollY = 0
  /\ connected = FALSE
  /\ observing = FALSE
  /\ connects = 0
  /\ viewTransition = 0
  /\ transitions = <<>>
  /\ started = 0
  /\ suspended = <<>>
  /\ spliced = <<>>
  /\ failed = <<>>
  /\ imageRatioSetting = Null
  /\ \/ galleries = <<>>
     \/ \E imageRatio \in Settings \cup {Null} :
          \E gallery \in Gallery(1, imageRatio) : galleries = <<gallery>>
  /\ raf = <<>>
  /\ listeners = <<>>
  /\ caches = <<>>
  /\ applications = <<>>
  /\ InitComponents

NextGalleries ==
  \/ ConnectedCallback
  \/ InsertCards
  \/ AnimationFrame
  \/ ImageLoad

SpecGalleries == InitGalleries /\ [][NextGalleries]_vars

\* The normaliser of a section with a fixed ratio, whose grid holds one card
\* with an empty gallery when the list is connected. The browser renders
\* every frame that was requested.
InitFixed ==
  /\ InitGalleries
  /\ Len(galleries) = 1
  /\ galleries[1].imageRatio \in {"square", "portrait", "landscape"}
  /\ galleries[1].img = "none"
  /\ galleries[1].productId = ""

SpecFixed == InitFixed /\ [][NextGalleries]_vars /\ WF_vars(AnimationFrame)

\* ---------------------------------------------------------- cart-discount.js
\* The discount codes a visitor works with.
Codes == {"A", "B"}
\* How many applyDiscount / removeDiscount calls are made.
MaxCalls == 3

\* The state the handlers of the component read and write, as one value.
CartDiscount ==
  [pills |-> pills, activeFetch |-> activeFetch, requests |-> requests,
   cartDiscountError |-> cartDiscountError, calls |-> calls]

CommitCartDiscount(c) ==
  /\ pills' = c.pills
  /\ activeFetch' = c.activeFetch
  /\ requests' = c.requests
  /\ cartDiscountError' = c.cartDiscountError
  /\ calls' = c.calls

Range(seq) == {seq[i] : i \in 1..Len(seq)}

\* indexOf (line 108), from 1; 0 is -1.
indexOf(seq, x) ==
  IF x \in Range(seq) THEN CHOOSE i \in 1..Len(seq) : seq[i] = x /\ \A j \in 1..(i - 1) : seq[j] # x
  ELSE 0

\* The submit event of the discount form: its target is the form with its
\* input[name="discount"], or something else; code is the input's value.
SubmitEvents ==
  {[class |-> "SubmitEvent", key |-> "", target |-> t, code |-> v] :
     t \in {"form", "other"}, v \in Codes}

\* A click or a key press, on one of the pills or elsewhere in the
\* component; code is the pill's data-discount-code.
PillEvents(c) ==
  LET keys == {<<"MouseEvent", "">>, <<"KeyboardEvent", "Enter">>, <<"KeyboardEvent", "Escape">>} IN
  {[class |-> k[1], key |-> k[2], target |-> "pill", code |-> v] : k \in keys, v \in Range(c.pills)}
  \cup {[class |-> k[1], key |-> k[2], target |-> "other", code |-> ""] : k \in keys}

\* event instanceof KeyboardEvent / MouseEvent (lines 93-94): a KeyboardEvent
\* is a UIEvent, not a MouseEvent.
instanceofKeyboardEvent(event) == event.class = "KeyboardEvent"
instanceofMouseEvent(event) == event.class = "MouseEvent"

\* #existingDiscounts (lines 147-158)
existingDiscounts(c) == c.pills

\* No response has been received.
NoResponse == [kind |-> "none", discount_codes |-> <<>>]

\* What a call leaves in the log of calls: what it was given, what it sent,
\* how far it is, the response it received, and how many events it
\* dispatched, sections it morphed and errors it revealed.
Call(handler, event, existing, sent, discount, outcome) ==
  [handler |-> handler, event |-> event, existing |-> existing, sent |-> sent,
   discount |-> discount, outcome |-> outcome, response |-> NoResponse,
   events |-> 0, morphs |-> 0, errors |-> 0]

\* #createAbortController (lines 23-31) for the controller of call k:
\* aborting the active controller rejects the fetch that carries its signal.
createAbortController(c, k) ==
  [c EXCEPT !.requests = [i \in DOMAIN @ |->
                            IF @[i].controller = c.activeFetch
                            THEN [@[i] EXCEPT !.aborted = TRUE] ELSE @[i]],
            !.activeFetch = k]

\* lines 76-79, 129-132: the await of an aborted request throws; the catch
\* swallows the error and the finally clears #activeFetch. These
\* continuations are microtasks of the task that called abort().
RECURSIVE settleAborted(_)
settleAborted(c) ==
  IF \E i \in 1..Len(c.requests) : c.requests[i].aborted
  THEN LET i == CHOOSE j \in 1..Len(c.requests) :
                  c.requests[j].aborted /\ \A h \in 1..(j - 1) : ~c.requests[h].aborted
           k == c.requests[i].controller
       IN settleAborted([c EXCEPT !.requests = RemoveAt(@, i),
                                  !.calls[k].outcome = "aborted",
                                  !.activeFetch = 0])
  ELSE c

\* applyDiscount up to `await fetch` (lines 37-63)
applyDiscount(c, event) ==
  LET k == Len(c.calls) + 1
      discountCodeValue == event.code
  IN IF event.target # "form"
     THEN [c EXCEPT !.calls = Append(@, Call("applyDiscount", event, existingDiscounts(c),
                                             FALSE, <<>>, "ignored"))]
     ELSE LET a == createAbortController(c, k)
              existing == existingDiscounts(a)
          IN IF discountCodeValue \in Range(existing)
             THEN [a EXCEPT !.activeFetch = 0,
                            !.calls = Append(@, Call("applyDiscount", event, existing,
                                                     FALSE, <<>>, "returned"))]
             ELSE [a EXCEPT !.requests = Append(@, [controller |-> k,
                                                    handler |-> "applyDiscount",
                                                    code |-> discountCodeValue,
                                                    discount |-> Append(existing, discountCodeValue),
                                                    aborted |-> FALSE]),
                            !.calls = Append(@, Call("applyDiscount", event, existing, TRUE,
                                                     Append(existing, discountCodeValue),
                                                     "pending"))]

\* The condition of lines 92-97, negated: the handler goes on.
passesEventTest(event) ==
  ~(\/ (instanceofKeyboardEvent(event) /\ event.key # "Enter")
    \/ ~instanceofMouseEvent(event))

\* removeDiscount up to `await fetch` (lines 88-123)
removeDiscount(c, event) ==
  LET k == Len(c.calls) + 1
      existing == existingDiscounts(c)
      index == indexOf(existing, event.code)
  IN IF \/ ~passesEventTest(event)
        \/ event.target # "pill"
        \/ event.code = ""
        \/ index = 0
     THEN [c EXCEPT !.calls = Append(@, Call("removeDiscount", event, existing,
                                             FALSE, <<>>, "ignored"))]
     ELSE LET a == createAbortController(c, k) IN
          [a EXCEPT !.requests = Append(@, [controller |-> k,
                                            handler |-> "removeDiscount",
                                            code |-> event.code,
                                            discount |-> RemoveAt(existing, index),
                                            aborted |-> FALSE]),
                    !.calls = Append(@, Call("removeDiscount", event, existing, TRUE,
                                             RemoveAt(existing, index), "pending"))]

\* What the cart update request settles with: a rejection (the network
\* failed, or the body is no JSON), a JSON body without discount_codes and
\* sections (the cart's error object), or the cart, which reports every
\* code of the request as applicable or not.
RECURSIVE Flags(_)
Flags(discount) ==
  IF discount = <<>> THEN {<<>>}
  ELSE {<<[code |-> discount[1], applicable |-> b]>> \o rest :
          b \in BOOLEAN, rest \in Flags(Tail(discount))}

Responses(request) ==
  {[kind |-> "rejected", discount_codes |-> <<>>],
   [kind |-> "error", discount_codes |-> <<>>]}
  \cup {[kind |-> "cart", discount_codes |-> f] : f \in Flags(request.discount)}

\* morphSection (lines 75, 128): the section is replaced by the one the
\* server rendered, which shows a pill for each code it applied.
morphSection(c, response) ==
  LET applied == SelectSeq(response.discount_codes, LAMBDA d : d.applicable) IN
  [c EXCEPT !.pills = [i \in 1..Len(applied) |-> applied[i].code]]

\* #handleDiscountError (lines 139-141)
handleDiscountError(c) == [c EXCEPT !.cartDiscountError.hidden = FALSE]

\* The test of lines 67-69.
reportsInapplicable(response, discountCodeValue) ==
  \E i \in 1..Len(response.discount_codes) :
    /\ response.discount_codes[i].code = discountCodeValue
    /\ response.discount_codes[i].applicable = FALSE

\* applyDiscount from `await fetch` on (lines 60-81) going on to line 74 whatever
\* the response reports.
applyDiscountResume_noErrorCheck(c, i, response) ==
  LET r == c.requests[i]
      k == r.controller
      t == [c EXCEPT !.requests = RemoveAt(@, i), !.activeFetch = 0,
                     !.calls[k].response = response, !.calls[k].outcome = "settled"]
  IN IF response.kind # "cart"
     THEN t
     ELSE [morphSection(t, response) EXCEPT !.calls[k].events = @ + 1,
                                            !.calls[k].morphs = @ + 1]

\* applyDiscount from `await fetch` on (lines 60-81): a rejection, and the
\* TypeError of data.discount_codes.find on a body without discount_codes,
\* end in the catch.
applyDiscountResume(c, i, response) ==
  LET r == c.requests[i]
      k == r.controller
      t == [c EXCEPT !.requests = RemoveAt(@, i), !.activeFetch = 0,
                     !.calls[k].response = response, !.calls[k].outcome = "settled"]
  IN IF response.kind # "cart"
     THEN t
     ELSE IF reportsInapplicable(response, r.code)
     THEN [handleDiscountError(t) EXCEPT !.calls[k].errors = @ + 1]
     ELSE [morphSection(t, response) EXCEPT !.calls[k].events = @ + 1,
                                            !.calls[k].morphs = @ + 1]

\* removeDiscount from `await fetch` on (lines 120-133): with a body
\* without sections the event is dispatched and the argument of
\* morphSection throws.
removeDiscountResume(c, i, response) ==
  LET r == c.requests[i]
      k == r.controller
      t == [c EXCEPT !.requests = RemoveAt(@, i), !.activeFetch = 0,
                     !.calls[k].response = response, !.calls[k].outcome = "settled"]
  IN IF response.kind = "rejected"
     THEN t
     ELSE IF response.kind = "error"
     THEN [t EXCEPT !.calls[k].events = @ + 1]
     ELSE [morphSection(t, response) EXCEPT !.calls[k].events = @ + 1,
                                            !.calls[k].morphs = @ + 1]

\* What the cart discount component leaves alone.
paginatedList == <<listVars, lifecycle, transitionVars, imageRatioSetting, raf, galleryVars>>

\* The form is submitted.
ApplyDiscount ==
  /\ Len(calls) < MaxCalls
  /\ \E event \in SubmitEvents :
       CommitCartDiscount(settleAborted(applyDiscount(CartDiscount, event)))
  /\ UNCHANGED <<paginatedList, timerVars, menuVars>>

\* A pill, or something else in the component, is clicked or receives a key.
RemoveDiscount ==
  /\ Len(calls) < MaxCalls
  /\ \E event \in PillEvents(CartDiscount) :
       CommitCartDiscount(settleAborted(removeDiscount(CartDiscount, event)))
  /\ UNCHANGED <<paginatedList, timerVars, menuVars>>

\* A cart update request settles. The two awaits of the handlers (fetch,
\* response.json()) are taken as one.
CartUpdateSettled ==
  /\ \E i \in 1..Len(requests) :
       \E response \in Responses(requests[i]) :
         IF requests[i].handler = "applyDiscount"
         THEN CommitCartDiscount(applyDiscountResume(CartDiscount, i, response))
         ELSE CommitCartDiscount(removeDiscountResume(CartDiscount, i, response))
  /\ UNCHANGED <<paginatedList, timerVars, menuVars>>

\* A page without a paginated list: its variables keep the values of a
\* list that is never connected.
NoPaginatedList ==
  /\ refs = [grid |-> FALSE, viewMorePrevious |-> FALSE, viewMoreNext |-> FALSE]
  /\ cards = <<>>
  /\ location = [page |-> 1, hash |-> ""]
  /\ pages = <<>>
  /\ resolvePagePromise = [t \in Types |-> 0]
  /\ fetches = <<>>
  /\ renders = [t \in Types |-> <<>>]
  /\ idle = [t \in Types |-> 0]
  /\ history = <<>>
  /\ scrollY = 0
  /\ connected = FALSE
  /\ observing = FALSE
  /\ connects = 0
  /\ viewTransition = 0
  /\ transitions = <<>>
  /\ started = 0
  /\ suspended = <<>>
  /\ spliced = <<>>
  /\ failed = <<>>
  /\ imageRatioSetting = Null
  /\ galleries = <<>>
  /\ raf = <<>>
  /\ listeners = <<>>
  /\ caches = <<>>
  /\ applications = <<>>

\* The cart discount component of a cart that holds no discount, one, or two.
InitCart ==
  /\ NoPaginatedList
  /\ pills \in {<<>>, <<"A">>, <<"B">>, <<"A", "B">>}
  /\ activeFetch = 0
  /\ requests = <<>>
  /\ cartDiscountError = [hidden |-> TRUE]
  /\ calls = <<>>
  /\ InitTimers
  /\ InitHeaderMenu

NextCart ==
  \/ ApplyDiscount
  \/ RemoveDiscount
  \/ CartUpdateSettled

SpecCart == InitCart /\ [][NextCart]_vars

\* ------------------------------------------------- utilities.js, debounce
\* The clock advances in steps of Step milliseconds, up to MaxTime.
Step == 50
MaxTime == 600
\* The wait of the debounced function `fn`, and the arguments it is called with.
Wait == 150
Args == {[target |-> "x"], [target |-> "y"]}
\* How many calls and cancels the debounced function `fn` is given.
MaxDebounceEvents == 4

\* part_000 lines 5-6
ACTIVATE_DELAY == 250
DEACTIVATE_DELAY == 350
\* part_000 lines 39-42: the host carries no data-animation-delay
animationDelay == 0

\* The state the timers, the debounced functions and the header menu's
\* handlers read and write, as one value.
Menu ==
  [now |-> now, timeout |-> timeout, timers |-> timers, timerIds |-> timerIds,
   debounceLog |-> debounceLog, activeItem |-> activeItem,
   ariaExpanded |-> ariaExpanded, overflowExpanded |-> overflowExpanded,
   submenuHeight |-> submenuHeight, animating |-> animating,
   overflow |-> overflow, menuLog |-> menuLog]

CommitMenu(m) ==
  /\ now' = m.now
  /\ timeout' = m.timeout
  /\ timers' = m.timers
  /\ timerIds' = m.timerIds
  /\ debounceLog' = m.debounceLog
  /\ activeItem' = m.activeItem
  /\ ariaExpanded' = m.ariaExpanded
  /\ overflowExpanded' = m.overflowExpanded
  /\ submenuHeight' = m.submenuHeight
  /\ animating' = m.animating
  /\ overflow' = m.overflow
  /\ menuLog' = m.menuLog

\* setTimeout(callback, delay): a new timer, with a new id. `call` tells
\* which call of a debounced function set the timer (0 for other timers).
setTimeout(m, callback, args, delay, call) ==
  [m EXCEPT !.timerIds = @ + 1,
            !.timers = @ \cup {[id |-> m.timerIds + 1, callback |-> callback,
                                args |-> args, due |-> m.now + delay, call |-> call]}]

\* clearTimeout(id): the timer is dropped, if it is still active.
clearTimeout(m, id) == [m EXCEPT !.timers = {x \in @ : x.id # id}]

\* debounced(...args) without the clearTimeout of line 142.
debounced_noClear(m, d, args, wait) ==
  LET k == Len(m.debounceLog[d].calls) + 1
      s == setTimeout(m, d, args, wait, k)
  IN [s EXCEPT !.timeout[d] = s.timerIds,
               !.debounceLog[d].calls = Append(@, [args |-> args, at |-> m.now,
                                                   event |-> m.menuLog.calls]),
               !.debounceLog[d].events = @ + 1]

\* debounced(...args) (utilities.js lines 141-144) of the debounced function d
debounced(m, d, args, wait) ==
  LET c == clearTimeout(m, m.timeout[d])
      k == Len(c.debounceLog[d].calls) + 1
      s == setTimeout(c, d, args, wait, k)
  IN [s EXCEPT !.timeout[d] = s.timerIds,
               !.debounceLog[d].calls = Append(@, [args |-> args, at |-> m.now,
                                                   event |-> m.menuLog.calls]),
               !.debounceLog[d].events = @ + 1]

\* debounced.cancel() (utilities.js lines 147-149)
cancel(m, d) ==
  [clearTimeout(m, m.timeout[d]) EXCEPT
     !.debounceLog[d].cancelled = Len(m.debounceLog[d].calls)]

\* fn.apply(this, args) (utilities.js line 143) is reached: the invocation
\* is logged with the call that set the timer, the number of calls made
\* and the number of calls the last cancel() covered.
invoke(m, timer) ==
  [m EXCEPT !.debounceLog[timer.callback].invoked =
              Append(@, [of |-> timer.call, args |-> timer.args, at |-> m.now,
                         calls |-> Len(m.debounceLog[timer.callback].calls),
                         cancelled |-> m.debounceLog[timer.callback].cancelled])]

\* The timer the browser runs next: one that is due, the earliest first.
NextTimer(m) ==
  {x \in m.timers :
     /\ x.due <= m.now
     /\ \A y \in m.timers : y.due > x.due \/ (y.due = x.due /\ y.id >= x.id)}

\* ------------------------------------------------- part_000, HeaderMenu
\* What an event of the menu targets: the list item of a menu item, or the
\* "More" item.
Targets == Items \cup {"more"}
\* The menu items that have a submenu.
Submenus == {"a"}
\* How many activate / deactivate calls are made, and how often the
\* overflow of the menu changes.
MaxMenuCalls == 3
MaxResizes == 1

instanceofElement(target) == target # "document"

\* findMenuItem (lines 162-171)
findMenuItem(m, element) ==
  IF ~instanceofElement(element) THEN Null
  ELSE IF element = "more" THEN m.overflow
  ELSE element

\* event.target.slot (line 75): "more" for the "More" item, "overflow" for
\* the items from the first overflowing one on.
slot(m, target) ==
  IF target = "more" THEN "more"
  ELSE IF m.overflow = "a" \/ (m.overflow = "b" /\ target = "b") THEN "overflow"
  ELSE ""

\* findSubmenu (lines 178-181), as the height of the submenu found
findSubmenu(item) == IF item \in Submenus THEN item ELSE Null

\* #deactivate (lines 129-142)
privateDeactivate(m, item) ==
  LET t == [m EXCEPT !.submenuHeight = "0px"] IN
  IF item = Null THEN t
  ELSE setTimeout([t EXCEPT !.activeItem = Null,
                            !.ariaExpanded["host"] = "false",
                            !.ariaExpanded[item] = "false",
                            !.animating = @ \cup {item}],
                  "animating", [target |-> item], animationDelay, 0)

\* #activateHandler without the #deactivate() of line 77.
activateHandler_keepsActive(m, event) ==
  LET c == cancel(m, "deactivate")
      item == findMenuItem(c, event.target)
  IN IF ~instanceofElement(event.target) THEN c
     ELSE IF item = Null \/ item = c.activeItem THEN c
     ELSE LET f == [c EXCEPT !.overflowExpanded = IF slot(c, event.target) # "" THEN "true" ELSE "false",
                             !.activeItem = item,
                             !.ariaExpanded["host"] = "true",
                             !.ariaExpanded[item] = "true"]
          IN IF findSubmenu(item) = Null THEN f
             ELSE [f EXCEPT !.submenuHeight = findSubmenu(item)]

\* #activateHandler (lines 62-87)
activateHandler(m, event) ==
  LET c == cancel(m, "deactivate")
      item == findMenuItem(c, event.target)
  IN IF ~instanceofElement(event.target) THEN c
     ELSE IF item = Null \/ item = c.activeItem THEN c
     ELSE LET d == [c EXCEPT !.overflowExpanded = IF slot(c, event.target) # "" THEN "true" ELSE "false"]
              e == privateDeactivate(d, d.activeItem)
              f == [e EXCEPT !.activeItem = item,
                             !.ariaExpanded["host"] = "true",
                             !.ariaExpanded[item] = "true"]
          IN IF findSubmenu(item) = Null THEN f
             ELSE [f EXCEPT !.submenuHeight = findSubmenu(item)]

\* activate (lines 48-56)
activate(m, event) ==
  LET c == cancel(m, "deactivate") IN
  IF c.activeItem # Null THEN activateHandler(c, event)
  ELSE debounced(c, "activateHandler", event, ACTIVATE_DELAY)

\* deactivate (lines 95-107)
deactivate(m, event) ==
  LET c == cancel(m, "activateHandler") IN
  IF ~instanceofElement(event.target) THEN c
  ELSE IF findMenuItem(c, event.target) = c.activeItem
  THEN debounced(c, "deactivate", event, DEACTIVATE_DELAY)
  ELSE c

\* The callback of #debouncedDeactivate (lines 113-123)
debouncedDeactivate(m, event) ==
  LET t == [m EXCEPT !.overflowExpanded = "false"]
      item == findMenuItem(t, event.target)
  IN IF item # t.activeItem THEN t
     ELSE privateDeactivate(t, item)

\* The callback of a timer runs.
runTimer(m, timer) ==
  LET t == [m EXCEPT !.timers = @ \ {timer}] IN
  CASE timer.callback = "fn" -> invoke(t, timer)
    [] timer.callback = "activateHandler" -> activateHandler(invoke(t, timer), timer.args)
    [] timer.callback = "deactivate" -> debouncedDeactivate(invoke(t, timer), timer.args)
    [] timer.callback = "animating" -> [t EXCEPT !.animating = @ \ {timer.args.target}]

\* What the timers and the header menu leave alone.
otherComponents == <<paginatedList, cartVars>>

\* Time passes, once the timers that are due have run (a timer is not late
\* by a whole step; what is called at the instant it is due may still run
\* before it).
Tick ==
  /\ now + Step <= MaxTime
  /\ \A x \in timers : x.due > now
  /\ now' = now + Step
  /\ UNCHANGED <<timeout, timers, timerIds, debounceLog, menuVars, menuLog, otherComponents>>

\* The browser runs the callback of a timer that is due.
TimerFires ==
  /\ \E timer \in NextTimer(Menu) : CommitMenu(runTimer(Menu, timer))
  /\ UNCHANGED otherComponents

\* The debounced function `fn` is called.
DebouncedCall ==
  /\ debounceLog["fn"].events < MaxDebounceEvents
  /\ \E args \in Args : CommitMenu(debounced(Menu, "fn", args, Wait))
  /\ UNCHANGED otherComponents

\* The cancel() of the debounced function `fn` is called.
DebouncedCancel ==
  /\ debounceLog["fn"].events < MaxDebounceEvents
  /\ CommitMenu([cancel(Menu, "fn") EXCEPT !.debounceLog["fn"].events = @ + 1])
  /\ UNCHANGED otherComponents

\* The pointer enters a target of the menu, or the target receives focus.
Activate ==
  /\ menuLog.calls < MaxMenuCalls
  /\ \E target \in Targets :
       CommitMenu(activate([Menu EXCEPT !.menuLog.calls = @ + 1,
                                        !.menuLog.lastActivate = menuLog.calls + 1],
                           [target |-> target]))
  /\ UNCHANGED otherComponents

\* The pointer leaves a target of the menu, or the target loses focus.
Deactivate ==
  /\ menuLog.calls < MaxMenuCalls
  /\ \E target \in Targets :
       CommitMenu(deactivate([Menu EXCEPT !.menuLog.calls = @ + 1], [target |-> target]))
  /\ UNCHANGED otherComponents

\* The window is resized: other items overflow into the "More" item.
Resize ==
  /\ menuLog.resizes < MaxResizes
  /\ \E item \in (Items \cup {Null}) \ {overflow} :
       CommitMenu([Menu EXCEPT !.overflow = item, !.menuLog.resizes = @ + 1])
  /\ UNCHANGED otherComponents

\* A page without a paginated list and without a cart discount component.
NoOtherComponents == NoPaginatedList /\ InitCartDiscount

\* A debounced function with its callers.
InitDebounce == NoOtherComponents /\ InitTimers /\ InitHeaderMenu

NextDebounce ==
  \/ DebouncedCall
  \/ DebouncedCancel
  \/ Tick
  \/ TimerFires

SpecDebounce == InitDebounce /\ [][NextDebounce]_vars

\* The header menu, with no item or the last item overflowing.
InitMenu ==
  /\ NoOtherComponents
  /\ InitTimers
  /\ activeItem = Null
  /\ ariaExpanded = [x \in Items \cup {"host"} |-> "false"]
  /\ overflowExpanded = "false"
  /\ submenuHeight = "0px"
  /\ animating = {}
  /\ overflow \in {Null, "b"}

NextMenu ==
  \/ Activate
  \/ Deactivate
  \/ Resize
  \/ Tick
  \/ TimerFires

SpecMenu == InitMenu /\ [][NextMenu]_vars

\* ------------------------------------------------------------------ claims
\* Pending calls of one type in a multiset of calls.
RECURSIVE SumCounts(_, _)
SumCounts(b, keys) ==
  IF keys = {} THEN 0
  ELSE LET k == CHOOSE x \in keys : TRUE IN b[k] + SumCounts(b, keys \ {k})

Pending(b, type) == SumCounts(b, {k \in DOMAIN b : k.type = type})

\* The pages within the range the grid publishes.
InRange(p) == refs.grid /\ 1 <= p /\ p <= LastPage

\* C1: the cards of the grid are in non-decreasing page order, the pages
\* appended by #renderNextPage are appended in increasing order, and no page
\* is spliced into the grid twice.
C1_AppendedInOrderOnce ==
  /\ \A i, j \in 1..Len(cards) : i < j => cards[i] <= cards[j]
  /\ \A i, j \in 1..Len(spliced) :
       i < j =>
         /\ spliced[i].page # spliced[j].page
         /\ (spliced[i].type = "next" /\ spliced[j].type = "next"
               => spliced[i].page < spliced[j].page)

\* Two pages have been appended, one after the other.
C1_Witness ==
  \E i, j \in 1..Len(spliced) :
    i < j /\ spliced[i].type = "next" /\ spliced[j].type = "next"

\* C2: per type, at most one #fetchPage call awaits getSectionHTML.
C2_OneFetchPerType == \A type \in Types : Pending(fetches, type) <= 1

\* C3: a page outside [1, last-page] is never requested, cached, awaited by a
\* render, spliced or pushed, and idle callbacks come from splices only.
C3_OutOfRangeUnused ==
  /\ \A f \in (DOMAIN fetches) \cup (DOMAIN failed) : InRange(f.page)
  /\ \A p \in DOMAIN pages : InRange(p)
  /\ \A type \in Types : \A i \in 1..Len(renders[type]) : InRange(renders[type][i].page)
  /\ \A i \in 1..Len(spliced) : InRange(spliced[i].page)
  /\ \A i \in 1..Len(history) : InRange(history[i].page)
  /\ \A type \in Types :
       idle[type] <= Cardinality({i \in 1..Len(spliced) : spliced[i].type = type})

\* The last page has been appended and the follow-up prefetch has run: the
\* page after it was not requested.
C3_Witness ==
  /\ \E i \in 1..Len(spliced) : spliced[i].type = "next" /\ spliced[i].page = LastPage
  /\ idle["next"] = 0
  /\ fetches = <<>>
  /\ connected

\* A step in which getSectionHTML resolves for a fetch of the type.
ResolvedStep(type) ==
  Pending(fetches', type) < Pending(fetches, type) /\ failed' = failed

AllButLast(seq) == SubSeq(seq, 1, Len(seq) - 1)

\* The document position of the i-th card of the grid.
DocTop(i) == GridTop + (i - 1) * CardHeight

\* C4, as stated: renders issue no request, and when the previous-page fetch
\* resolves with two renders suspended on that page, both resume.
C4_BothRendersResume ==
  [][/\ Len(renders'["previous"]) > Len(renders["previous"]) => fetches' = fetches
     /\ LET r == renders["previous"] IN
        (Len(r) = 2 /\ r[1].page = r[2].page /\ r[1].page \notin DOMAIN pages
           /\ ResolvedStep("previous"))
          => renders'["previous"] = <<>>]_vars

\* C4, amended: renders issue no request, and when the previous-page fetch
\* resolves with several renders suspended, only the render suspended last
\* resumes; it splices the content cached for its page (which the fetch of
\* that page has just written), or ends without effect when none is usable,
\* and the earlier renders stay suspended.
C4_OnlyLatestRenderResumes ==
  [][/\ Len(renders'["previous"]) > Len(renders["previous"]) => fetches' = fetches
     /\ LET r == renders["previous"] IN
        (Len(r) >= 2 /\ resolvePagePromise["previous"] # 0 /\ ResolvedStep("previous"))
          => /\ renders'["previous"] = AllButLast(r)
             /\ LET q == r[Len(r)].page
                    f == [type |-> "previous", page |-> q] IN
                /\ Count(fetches', f) < Count(fetches, f) => q \in DOMAIN pages'
                /\ IF q \in DOMAIN pages' /\ pages'[q].hasGrid
                   THEN /\ Len(spliced') = Len(spliced) + 1
                        /\ spliced'[Len(spliced')].page = q
                        /\ cards' = [i \in 1..pages'[q].nCards |-> q] \o cards
                   ELSE spliced' = spliced /\ cards' = cards]_vars

\* One of two renders has spliced its page and the other is left suspended.
C4_Witness ==
  /\ Len(renders["previous"]) = 1
  /\ resolvePagePromise["previous"] = 0
  /\ Len(spliced) = 1
  /\ spliced[1].type = "previous"
  /\ spliced[1].page = renders["previous"][1].page

\* C5: no append or prepend happens while a view transition is on screen.
C5_NoSpliceDuringTransition ==
  \A i \in 1..Len(spliced) : ~spliced[i].inTransition

\* C6: a prepend to a non-empty grid leaves the window scrolled to the offset
\* before it plus the displacement of the card that was first.
C6_ViewportStablePrepend ==
  [][\A i \in (Len(spliced) + 1)..Len(spliced') :
       (spliced'[i].type = "previous" /\ Len(cards) > 0)
         => scrollY' = scrollY + (DocTop(spliced'[i].n + 1) - DocTop(1))]_vars

\* A page was prepended with the window scrolled down.
C6_Witness ==
  /\ spliced # <<>>
  /\ spliced[Len(spliced)].type = "previous"
  /\ scrollY = MaxScroll + CardHeight * spliced[Len(spliced)].n

\* C7: the URLs pushed are those of the pages spliced, one each, with the
\* page parameter set and the hash empty; and once the last card is on the
\* last page, nothing is appended, pushed, requested or awaited for "next".
C7_HistoryFollowsSplices ==
  [][/\ Len(history') = Len(spliced')
     /\ \A i \in 1..Len(history') : history'[i] = [page |-> spliced'[i].page, hash |-> ""]
     /\ history' # <<>> => location' = history'[Len(history')]
     /\ (Len(cards) > 0 /\ cards[Len(cards)] = LastPage)
          => /\ \A i \in (Len(spliced) + 1)..Len(spliced') : spliced'[i].type # "next"
             /\ renders'["next"] = renders["next"]
             /\ idle'["next"] <= idle["next"]
             /\ Pending(fetches', "next") <= Pending(fetches, "next")]_vars

\* last-page is 3 and the grid showed page 2: page 3 was appended, its URL
\* pushed, and the follow-up prefetch has run without a request.
C7_Witness ==
  /\ LastPage = 3
  /\ cards = <<2, 3>>
  /\ history = <<[page |-> 3, hash |-> ""]>>
  /\ location = [page |-> 3, hash |-> ""]
  /\ idle["next"] = 0
  /\ Pending(fetches, "next") = 0

\* C8, as stated: once a fetch of a page has failed, no further request for
\* that page is issued and the renders suspended on its type stay suspended.
C8_FailedFetchStallsForever ==
  [][\A f \in DOMAIN failed :
       /\ Count(fetches', f) <= Count(fetches, f)
       /\ Len(renders'[f.type]) >= Len(renders[f.type])]_vars

\* C8, amended: the rejection itself issues no request and changes neither
\* the cache, the resolvers, the suspended renders, the grid, the history
\* nor the idle callbacks; and a suspended render resumes only in a step in
\* which a fetch of its type resolves.
C8_RejectionChangesNothing ==
  [][/\ failed' # failed
          => /\ \A f \in DOMAIN fetches' : Count(fetches', f) <= Count(fetches, f)
             /\ UNCHANGED <<pages, resolvePagePromise, renders, cards, history,
                            location, idle, spliced>>
     /\ \A type \in Types :
          Len(renders'[type]) < Len(renders[type]) => ResolvedStep(type)]_vars

\* A fetch has failed, nothing is pending, and a render still awaits the page.
C8_Witness ==
  \E f \in DOMAIN failed :
    /\ f.page \notin DOMAIN pages
    /\ Pending(fetches, f.type) = 0
    /\ resolvePagePromise[f.type] # 0
    /\ renders[f.type][resolvePagePromise[f.type]].page = f.page

\* C9, as stated: per type at most one render is suspended.
C9_OneSuspendedRender == \A type \in Types : Len(renders[type]) <= 1

\* C9, amended: per type the resolver field is null or resolves the promise
\* of the render suspended last; when a fetch of the type resolves, the field
\* is null afterwards and exactly the render it held has resumed.
C9_OneResolverPerType ==
  [][\A type \in Types :
       /\ resolvePagePromise'[type] \in {0, Len(renders'[type])}
       /\ ResolvedStep(type)
            => /\ resolvePagePromise'[type] = 0
               /\ renders'[type] = IF resolvePagePromise[type] # 0
                                   THEN AllButLast(renders[type])
                                   ELSE renders[type]]_vars

\* Two "next" renders are suspended; the field holds the second's resolver.
C9_Witness ==
  /\ Len(renders["next"]) = 2
  /\ resolvePagePromise["next"] = 2

\* C10: an entry of the page cache is never removed and never overwritten.
C10_CacheWrittenOnce ==
  [][\A p \in DOMAIN pages : p \in DOMAIN pages' /\ pages'[p] = pages[p]]_vars

\* A render of the type is suspended on the page.
Awaits(type, p) == \E i \in 1..Len(renders[type]) : renders[type][i].page = p

Spliced(type, p) == \E i \in 1..Len(spliced) : spliced[i].type = type /\ spliced[i].page = p

\* The page has been requested for the type: the call is pending or has
\* written the cache.
Requested(type, p) == Count(fetches, [type |-> type, page |-> p]) > 0 \/ p \in DOMAIN pages

Following(type, p) == IF type = "next" THEN p + 1 ELSE p - 1

\* C11: when a render of type d awaits page p, and every fetch succeeds with
\* well-formed content and fetches and idle callbacks complete, page p is
\* eventually spliced into the grid and the page following it is eventually
\* requested (when it is in range).
C11_RenderEventuallySplices ==
  \A type \in Types : \A p \in 1..LastPage :
    Awaits(type, p)
      ~> (/\ Spliced(type, p)
          /\ Following(type, p) \in 1..LastPage => Requested(type, Following(type, p)))

\* C12, as stated: when a render suspends on a page that is not in the cache
\* (and no fetch of which has failed), a fetch of that page for the render's
\* type is pending.
C12_FetchInFlightAtSuspend ==
  [][\A type \in Types :
       Len(renders'[type]) > Len(renders[type]) =>
         LET q == renders'[type][Len(renders'[type])].page
             f == [type |-> type, page |-> q] IN
         (q \notin DOMAIN pages /\ Count(failed, f) = 0) => Count(fetches, f) > 0]_vars

\* C12, amended: when a render suspends on a page that is not in the cache, a
\* fetch of that page for the render's type is pending, or an idle callback
\* of the type that will issue it is pending, or a fetch of it has failed.
C12_FetchPendingQueuedOrFailed ==
  [][\A type \in Types :
       Len(renders'[type]) > Len(renders[type]) =>
         LET q == renders'[type][Len(renders'[type])].page
             f == [type |-> type, page |-> q] IN
         q \notin DOMAIN pages =>
           \/ Count(fetches, f) > 0
           \/ idle[type] > 0
           \/ Count(failed, f) > 0]_vars

\* A render awaits a page that no pending fetch will bring: the idle callback
\* that requests it has not run yet.
C12_Witness ==
  /\ resolvePagePromise["next"] # 0
  /\ LET q == renders["next"][resolvePagePromise["next"]].page IN
     /\ q \notin DOMAIN pages
     /\ Count(fetches, [type |-> "next", page |-> q]) = 0
  /\ idle["next"] > 0
  /\ failed = <<>>

\* The page is cached with content #getGridForPage cannot use.
Malformed(p, cache) == p \in DOMAIN cache /\ ~cache[p].hasGrid

NoSpliceOf(type) == \A i \in (Len(spliced) + 1)..Len(spliced') : spliced'[i].type # type

\* The retry after the waiter resolved finds no usable content: the render
\* ends, and nothing but the cache entry the fetch wrote changes.
AbortsAtRetry(type) ==
  (ResolvedStep(type) /\ resolvePagePromise[type] # 0
     /\ LET q == renders[type][Len(renders[type])].page
        IN ~(q \in DOMAIN pages' /\ pages'[q].hasGrid))
    => /\ renders'[type] = AllButLast(renders[type])
       /\ UNCHANGED <<cards, history, location, scrollY, idle, spliced>>
       /\ \A p \in DOMAIN pages : p \in DOMAIN pages'
       /\ Cardinality({p \in DOMAIN pages' : p \notin DOMAIN pages \/ pages'[p] # pages[p]}) <= 1

\* C13, as stated: a render whose page is cached with empty content or
\* without the grid aborts, at the first lookup and at the retry, with grid,
\* history, scroll offset and cache unchanged and no prefetch scheduled.
C13_MalformedAborts ==
  [][\A type \in Types :
       /\ LET target == getPage(State, type) IN
          (fetches' = fetches /\ failed' = failed /\ target.defined
             /\ Malformed(target.page, pages))
            => /\ renders'[type] = renders[type]
               /\ NoSpliceOf(type)
               /\ idle'[type] <= idle[type]
               /\ pages' = pages
               /\ spliced' = spliced => cards' = cards /\ history' = history
       /\ AbortsAtRetry(type)]_vars

\* C13, amended: at the retry the render aborts; at the first lookup it does
\* not abort but suspends on the type's waiter, as for a page that is not
\* cached. In both cases the grid, the history, the scroll offset and the
\* cache are as they were and no prefetch is scheduled.
C13_MalformedSuspendsThenAborts ==
  [][\A type \in Types :
       /\ LET target == getPage(State, type) IN
          (fetches' = fetches /\ failed' = failed /\ target.defined
             /\ Malformed(target.page, pages))
            => /\ \/ renders'[type] = renders[type]
                  \/ /\ renders'[type] = Append(renders[type], target)
                     /\ resolvePagePromise'[type] = Len(renders'[type])
                     /\ spliced' = spliced => scrollY' = scrollY
               /\ NoSpliceOf(type)
               /\ idle'[type] <= idle[type]
               /\ pages' = pages
               /\ spliced' = spliced => cards' = cards /\ history' = history
       /\ AbortsAtRetry(type)]_vars

\* Page 2 is cached without the grid; one render of it has aborted at the
\* retry or found it so at the first lookup, and a render is suspended on it.
C13_Witness ==
  /\ Malformed(2, pages)
  /\ resolvePagePromise["next"] = 1
  /\ renders["next"][1].page = 2
  /\ spliced = <<>>
  /\ history = <<>>

\* The setting is one of the fixed ratios.
FixedMode == imageRatioSetting \in {"square", "portrait", "landscape"}

\* The gallery element with the given id is in the list and is not marked.
Unprocessed(id) == \E i \in 1..Len(galleries) : galleries[i].id = id /\ ~galleries[i].applied

Processed(id) == \E i \in 1..Len(galleries) : galleries[i].id = id /\ galleries[i].applied

\* C14: in fixed mode a gallery marked processed has the constant of the
\* setting ("1", "0.8", "1.778") as its custom property and as the aspect
\* ratio of each media container, whatever its image; and a gallery that is
\* unprocessed when a render has called for normalisation is eventually marked.
C14_FixedRatioApplied ==
  /\ [][FixedMode' =>
          \A i \in 1..Len(galleries') :
            galleries'[i].applied =>
              LET constant == CASE imageRatioSetting' = "square" -> <<"1">>
                                [] imageRatioSetting' = "portrait" -> <<"0", ".", "8">>
                                [] imageRatioSetting' = "landscape" -> <<"1", ".", "7", "7", "8">>
              IN /\ galleries'[i].ratio = constant
                 /\ Len(galleries'[i].containers) = MaxContainers
                 /\ \A c \in 1..MaxContainers : galleries'[i].containers[c] = constant]_vars
  /\ \A id \in 1..MaxGalleries :
       (FixedMode /\ Unprocessed(id) /\ \E k \in 1..Len(raf) : raf[k].kind = "process")
         ~> Processed(id)

\* In landscape mode a gallery whose image is 100 x 2000 was marked.
C14_Witness ==
  /\ imageRatioSetting = "landscape"
  /\ \E i \in 1..Len(galleries) :
       /\ galleries[i].applied
       /\ galleries[i].img = "complete"
       /\ galleries[i].size = <<100, 2000>>
       /\ galleries[i].ratio = <<"1", ".", "7", "7", "8">>

\* The gallery element with the given id.
Element(id) == galleries[CHOOSE i \in 1..Len(galleries) : galleries[i].id = id]

\* The applications made by adaptive passes.
Adaptive == {a \in 1..Len(applications) : applications[a].from.pass > 0}

\* C15: two galleries with the same non-empty data-product-id processed by
\* one pass of #fixAdaptiveAspectRatios have the same ratio applied, and the
\* pass computes the ratio of that product from an image once.
C15_SameProductComputedOnce ==
  \A a, b \in Adaptive :
    (a < b
       /\ applications[a].from.pass = applications[b].from.pass
       /\ Element(applications[a].gallery).productId # ""
       /\ Element(applications[a].gallery).productId
            = Element(applications[b].gallery).productId)
      => /\ applications[a].aspectRatio = applications[b].aspectRatio
         /\ applications[b].from.source # "image"

\* The number a ratio string with three decimals denotes, in thousandths.
DigitValue(c) == CHOOSE d \in 0..9 : Digit(d) = c

RECURSIVE Natural(_)
Natural(str) ==
  IF str = <<>> THEN 0
  ELSE 10 * Natural(SubSeq(str, 1, Len(str) - 1)) + DigitValue(str[Len(str)])

ThreeDecimals(str) == Len(str) >= 5 /\ str[Len(str) - 3] = "."

Thousandths(str) ==
  1000 * Natural(SubSeq(str, 1, Len(str) - 4))
    + Natural(SubSeq(str, Len(str) - 2, Len(str)))

\* str is w/h clamped to [0.1, 10] with exactly three decimals.
ClampedRatio(str, w, h) ==
  /\ ThreeDecimals(str)
  /\ LET k == Thousandths(str) IN
     IF 10 * w < h THEN k = 100
     ELSE IF w > 10 * h THEN k = 10000
     ELSE /\ 2 * (k * h - 1000 * w) <= h
          /\ 2 * (1000 * w - k * h) <= h

\* C16, as stated: in adaptive mode a processed gallery with a loaded image
\* of size w x h has w/h, clamped and with three decimals, as its ratio, and
\* one without an image has "1".
C16_RatioOfOwnImage ==
  \A a \in Adaptive :
    LET g == Element(applications[a].gallery) IN
    /\ (g.img = "complete" /\ g.size[1] > 0 /\ g.size[2] > 0)
         => ClampedRatio(applications[a].aspectRatio, g.size[1], g.size[2])
    /\ g.img = "none" => applications[a].aspectRatio = <<"1">>

\* C16, amended: a ratio computed from a gallery's image is w/h of its
\* natural size, clamped to [0.1, 10], with exactly three decimals (1600 x 900
\* gives "1.778", 100 x 2000 gives "0.100"); a gallery without an image and
\* without a cached ratio for its product receives "1"; and a gallery whose
\* product already has a ratio in the pass's cache receives that ratio, which
\* was computed from the image of an earlier gallery of the product.
C16_RatioOfImageOrCache ==
  /\ getSafeImageAspectRatio(1600, 900) = <<"1", ".", "7", "7", "8">>
  /\ getSafeImageAspectRatio(100, 2000) = <<"0", ".", "1", "0", "0">>
  /\ getSafeImageAspectRatio(3000, 100) = <<"1", "0", ".", "0", "0", "0">>
  /\ \A a \in Adaptive :
       LET g == Element(applications[a].gallery)
           source == applications[a].from.source IN
       /\ source = "image"
            => /\ g.img = "complete" /\ g.size[1] > 0 /\ g.size[2] > 0
               /\ ClampedRatio(applications[a].aspectRatio, g.size[1], g.size[2])
       /\ source = "default" 
            => g.img = "none" /\ applications[a].aspectRatio = <<"1">>
       /\ source = "cache"
            => \E b \in Adaptive :
                 /\ b < a
                 /\ applications[b].from = [pass |-> applications[a].from.pass,
                                            source |-> "image"]
                 /\ Element(applications[b].gallery).productId = g.productId
                 /\ g.productId # ""
                 /\ applications[b].aspectRatio = applications[a].aspectRatio
       /\ source \in {"image", "default", "cache"}

\* Ratios were computed from images of 100 x 2000 and of 1600 x 900.
C16_Witness ==
  \E a, b \in Adaptive :
    /\ applications[a].from.source = "image"
    /\ Element(applications[a].gallery).size = <<100, 2000>>
    /\ applications[a].aspectRatio = <<"0", ".", "1", "0", "0">>
    /\ applications[b].from.source = "image"
    /\ Element(applications[b].gallery).size = <<1600, 900>>
    /\ applications[b].aspectRatio = <<"1", ".", "7", "7", "8">>

\* C17: #applyAspectRatioToGallery is called at most once for a gallery.
C17_AppliedAtMostOnce ==
  \A a, b \in 1..Len(applications) :
    applications[a].gallery = applications[b].gallery => a = b

\* C18: while the list stays disconnected after a disconnectedCallback, the
\* sentinels are not observed, nothing is spliced into the grid, no URL is
\* pushed and no fetch is issued.
C18_QuietAfterDisconnect ==
  [][(connects > 0 /\ ~connected /\ ~connected')
       => /\ ~observing'
          /\ spliced' = spliced
          /\ history' = history
          /\ \A f \in DOMAIN fetches' : Count(fetches', f) <= Count(fetches, f)]_vars

\* The entries of a batch in which both sentinels intersect, in either order,
\* and of the batches with one of them.
EntryOf(target) == [target |-> target, isIntersecting |-> TRUE]

BothEntries(first) ==
  IF first = "previous" THEN <<EntryOf("viewMorePrevious"), EntryOf("viewMoreNext")>>
  ELSE <<EntryOf("viewMoreNext"), EntryOf("viewMorePrevious")>>

OneEntry(type) ==
  <<EntryOf(IF type = "previous" THEN "viewMorePrevious" ELSE "viewMoreNext")>>

\* What a callback has done for one type: the cards it inserted at that end
\* of the grid, the suspended renders and the waiter, the idle callbacks.
Outcome(s, type) ==
  [splices |-> SelectSeq(s.spliced, LAMBDA x : x.type = type),
   cards |-> SelectSeq(s.cards, LAMBDA c : IF type = "next" THEN c > cards[Len(cards)]
                                            ELSE c < cards[1]),
   renders |-> s.renders[type],
   resolvePagePromise |-> s.resolvePagePromise[type],
   idle |-> s.idle[type],
   fetches |-> [f \in {x \in DOMAIN s.fetches : x.type = type} |-> s.fetches[f]]]

\* C19: a batch in which both sentinels intersect starts the two renders in
\* the order of its entries, and what is done for a type is what a batch with
\* that sentinel alone does, whichever entry comes first.
C19_DirectionsIndependent ==
  (observing /\ Len(cards) > 0) =>
    \A anchored \in BOOLEAN : \A first \in Types : \A type \in Types :
      LET both == processEntries(State, BothEntries(first), anchored)
          alone == processEntries(State, OneEntry(type), anchored)
          new == SubSeq(both.spliced, Len(spliced) + 1, Len(both.spliced))
      IN /\ Outcome(both, type) = Outcome(alone, type)
         /\ Len(new) = 2 => new[1].type = first

\* A batch with both sentinels intersecting has both pages in the cache: it
\* splices two pages, the first entry's first.
C19_Witness ==
  /\ observing
  /\ Len(cards) > 0
  /\ LET both == processEntries(State, BothEntries("next"), FALSE)
     IN /\ Len(both.spliced) = Len(spliced) + 2
        /\ both.spliced[Len(spliced) + 1].type = "next"
        /\ both.cards = <<cards[1] - 1>> \o cards \o <<cards[Len(cards)] + 1>>

\* C20: a render issues no fetch itself; it inserts the cards, pushes the URL
\* and leaves one idle callback of its type. A fetch that is not issued by
\* connectedCallback is issued by such an idle callback of a render of its
\* type, in a later step, for the page next to the first ("previous") or the
\* last ("next") card the grid then has.
C20_PrefetchAtIdleAfterRender ==
  [][/\ Len(spliced') > Len(spliced)
          => /\ \A f \in DOMAIN fetches' : Count(fetches', f) <= Count(fetches, f)
             /\ Len(history') - Len(history) = Len(spliced') - Len(spliced)
             /\ \A type \in Types :
                  idle'[type] - idle[type]
                    = Cardinality({i \in (Len(spliced) + 1)..Len(spliced') :
                                     spliced'[i].type = type})
     /\ \A f \in DOMAIN fetches' :
          (Count(fetches', f) > Count(fetches, f) /\ connects' = connects)
            => /\ idle'[f.type] = idle[f.type] - 1
               /\ spliced' = spliced
               /\ cards' = cards
               /\ \E i \in 1..Len(spliced) :
                    /\ spliced[i].type = f.type
                    /\ history[i].page = spliced[i].page
               /\ f.page = IF f.type = "next" THEN cards[Len(cards)] + 1
                           ELSE cards[1] - 1]_vars

\* Page 2 was appended and the idle callback of that render has requested
\* page 3; the list was connected once.
C20_Witness ==
  /\ connects = 1
  /\ spliced = <<[type |-> "next", page |-> 2, n |-> 1, inTransition |-> FALSE]>>
  /\ idle["next"] = 0
  /\ Count(fetches, [type |-> "next", page |-> 3]) = 1

\* The calls of one handler, by their place in the log.
CallsOf(handler) == {k \in 1..Len(calls) : calls[k].handler = handler}

\* The existing codes without the code of the pill.
Without(existing, code) == SelectSeq(existing, LAMBDA x : x # code)

\* A removeDiscount call with a mouse event, or a keyboard event whose key is
\* Enter, on a pill whose code is among the existing discounts.
RemovalOf(k) ==
  /\ calls[k].handler = "removeDiscount"
  /\ calls[k].event.target = "pill"
  /\ calls[k].event.code \in Range(calls[k].existing)
  /\ \/ calls[k].event.class = "MouseEvent"
     \/ calls[k].event.class = "KeyboardEvent" /\ calls[k].event.key = "Enter"

\* C21: every removeDiscount call with a mouse event, or with a keyboard
\* event whose key is Enter, on a pill whose code is among the existing
\* discounts has sent a cart update request whose discount list is the
\* existing codes without that code.
C21_MouseAndEnterRemove ==
  \A k \in 1..Len(calls) :
    RemovalOf(k) =>
      /\ calls[k].sent
      /\ calls[k].discount = Without(calls[k].existing, calls[k].event.code)

\* An applyDiscount call that submitted a code through the form.
Submission(k) == calls[k].handler = "applyDiscount" /\ calls[k].event.target = "form"

\* The call is over: it returned, or the continuation of its await has run.
Over(k) == calls[k].outcome # "pending"

\* The response of the call reports the submitted code as not applicable.
ReportedInapplicable(k) == reportsInapplicable(calls[k].response, calls[k].event.code)

\* C22, as stated: an applyDiscount call for a code among the existing pills
\* sends no request; one whose response reports the code as not applicable
\* reveals the error element, dispatches no DiscountUpdateEvent and morphs
\* nothing; every other call, once over, has dispatched exactly one
\* DiscountUpdateEvent and morphed the section.
C22_OtherwiseUpdates ==
  \A k \in 1..Len(calls) :
    Submission(k) /\ Over(k) =>
      IF calls[k].event.code \in Range(calls[k].existing)
      THEN ~calls[k].sent
      ELSE IF ReportedInapplicable(k)
      THEN ~cartDiscountError.hidden /\ calls[k].events = 0 /\ calls[k].morphs = 0
      ELSE calls[k].events = 1 /\ calls[k].morphs = 1

\* C22, amended: an applyDiscount call for a code among the existing pills
\* sends no request, dispatches and morphs nothing; one whose response
\* reports the code as not applicable reveals the error element, dispatches
\* no DiscountUpdateEvent and morphs nothing; one whose response is the
\* cart and does not report the code as not applicable dispatches exactly one
\* DiscountUpdateEvent and morphs the section, without revealing the error
\* element; one whose request was aborted or rejected, or whose response
\* holds no discount_codes, dispatches, morphs and reveals nothing.
C22_UpdatesOnCartResponse ==
  \A k \in 1..Len(calls) :
    Submission(k) /\ Over(k) =>
      LET did == <<calls[k].errors, calls[k].events, calls[k].morphs>> IN
      IF calls[k].event.code \in Range(calls[k].existing)
      THEN ~calls[k].sent /\ did = <<0, 0, 0>>
      ELSE /\ calls[k].sent
           /\ calls[k].discount = Append(calls[k].existing, calls[k].event.code)
           /\ IF ReportedInapplicable(k)
              THEN ~cartDiscountError.hidden /\ did = <<1, 0, 0>>
              ELSE IF calls[k].response.kind = "cart"
              THEN did = <<0, 1, 1>>
              ELSE did = <<0, 0, 0>>

\* One submission was answered with the code not applicable, another with
\* the cart and the code applicable, a third met a failure or an abort.
C22_Witness ==
  /\ \E k \in CallsOf("applyDiscount") : Submission(k) /\ ReportedInapplicable(k)
  /\ \E k \in CallsOf("applyDiscount") :
       Submission(k) /\ calls[k].response.kind = "cart" /\ ~ReportedInapplicable(k)
  /\ \E k \in CallsOf("applyDiscount") :
       Submission(k) /\ calls[k].sent /\ Over(k) /\ calls[k].response.kind # "cart"

\* C27: at most one cart update request that has not been aborted awaits
\* its response.
C27_OneRequestInFlight ==
  Cardinality({i \in 1..Len(requests) : ~requests[i].aborted}) <= 1

\* The pages whose cards are in the grid.
RenderedPages == Range(cards)

\* A set of integers without a gap, within [1, last-page].
ContiguousInRange(S) ==
  /\ \A p \in S : 1 <= p /\ p <= LastPage
  /\ \A p, q \in S : \A x \in p..q : x \in S

\* The splices made by a step.
NewSplices == {spliced'[i] : i \in (Len(spliced) + 1)..Len(spliced')}

\* C25: the pages whose cards are in the grid form a contiguous range within
\* [1, last-page]; a step appends a page only if it is the page of the last
\* card + 1 and prepends a page only if it is the page of the first card - 1.
C25_RenderedPagesContiguous ==
  /\ ContiguousInRange(RenderedPages)
  /\ [][/\ ContiguousInRange(RenderedPages')
        /\ \A e \in NewSplices :
             /\ cards # <<>>
             /\ e.type = "next" => e.page = cards[Len(cards)] + 1
             /\ e.type = "previous" => e.page = cards[1] - 1
             /\ e.page \in RenderedPages' \ RenderedPages]_vars

\* A page has been appended and another prepended: the grid holds three pages.
C25_Witness ==
  /\ Cardinality(RenderedPages) = 3
  /\ \E i, j \in 1..Len(spliced) : spliced[i].type = "next" /\ spliced[j].type = "previous"

\* The other direction.
Other(type) == IF type = "next" THEN "previous" ELSE "next"

\* A step in which a getSectionHTML call of the type settles.
SettledStep(type) == Pending(fetches', type) < Pending(fetches, type)

\* C26: a step in which a fetch of one direction completes leaves the
\* resolver and the suspended renders of the other direction as they are,
\* and splices no page of the other direction.
C26_OtherDirectionUntouched ==
  [][\A type \in Types :
       SettledStep(type) =>
         /\ resolvePagePromise'[Other(type)] = resolvePagePromise[Other(type)]
         /\ renders'[Other(type)] = renders[Other(type)]
         /\ \A e \in NewSplices : e.type = type]_vars

\* The next page's fetch has completed and its render has appended the
\* page, while a render of the previous page is still suspended with its
\* resolver in place and its fetch pending.
C26_Witness ==
  /\ \E i \in 1..Len(spliced) : spliced[i].type = "next"
  /\ Pending(fetches, "next") = 0
  /\ renders["previous"] # <<>>
  /\ resolvePagePromise["previous"] # 0
  /\ Pending(fetches, "previous") > 0

\* C29: viewTransition.current is defined in every state in which a view
\* transition started by startViewTransition is on screen (started, neither
\* skipped nor finished).
C29_CurrentDefinedDuringTransition ==
  (\E i \in 1..Len(transitions) : transitions[i].state = "active") => viewTransition # 0

\* The log of the debounced function `fn`.
FnLog == debounceLog["fn"]

\* Two calls of `fn` belong to one burst: each call between them came less
\* than Wait after the call before it.
SameBurst(j, k) ==
  LET lo == IF j < k THEN j ELSE k
      hi == IF j < k THEN k ELSE j
  IN \A x \in lo..(hi - 1) : FnLog.calls[x + 1].at - FnLog.calls[x].at < Wait

\* C24: every invocation of fn is for the most recent call of the debounced
\* function, with the arguments of that call, at least Wait after it; no
\* two invocations are for calls of one burst; and no invocation is for a
\* call made before a cancel() that preceded the invocation.
C24_DebounceInvokesLastCall ==
  \A i \in 1..Len(FnLog.invoked) :
    LET v == FnLog.invoked[i] IN
    /\ v.of \in 1..Len(FnLog.calls)
    /\ v.of = v.calls
    /\ v.args = FnLog.calls[v.of].args
    /\ v.at >= FnLog.calls[v.of].at + Wait
    /\ v.of > v.cancelled
    /\ \A j \in 1..Len(FnLog.invoked) : j # i => ~SameBurst(FnLog.invoked[j].of, v.of)

\* fn has been invoked for the last call of a burst of two, after a cancel()
\* that covered an earlier call.
C24_Witness ==
  \E i \in 1..Len(FnLog.invoked) :
    LET v == FnLog.invoked[i] IN
    /\ v.cancelled >= 1
    /\ v.of >= 3
    /\ SameBurst(v.of - 1, v.of)
    /\ FnLog.calls[v.of - 1].args # v.args

\* The log of #debouncedDeactivate.
DeactivateLog == debounceLog["deactivate"]

\* A step in which the callback of #debouncedDeactivate runs.
DeactivateFires == Len(DeactivateLog'.invoked) > Len(DeactivateLog.invoked)

\* The invocation that step logs, and the deactivate call it is for.
Fired == DeactivateLog'.invoked[Len(DeactivateLog'.invoked)]
FiredCall == DeactivateLog.calls[Fired.of]

\* A step in which activate is called.
ActivateStep == menuLog'.lastActivate # menuLog.lastActivate

\* Outside an activate call, the active item becomes inactive only when the
\* callback of #debouncedDeactivate runs, DEACTIVATE_DELAY or more after the
\* most recent deactivate call for the item, with no activate call since.
InactiveAfterQuietDelay ==
  [][activeItem # Null /\ activeItem' # activeItem /\ ~ActivateStep =>
       /\ DeactivateFires
       /\ Fired.of = Len(DeactivateLog.calls)
       /\ now >= FiredCall.at + DEACTIVATE_DELAY
       /\ menuLog.lastActivate < FiredCall.event]_vars

\* An activate call leaves no deactivation pending.
ActivateCancels ==
  [][ActivateStep => \A x \in timers' : x.callback # "deactivate"]_vars

\* C23: the active item becomes inactive through a deactivate call only
\* DEACTIVATE_DELAY after the most recent deactivate call for it, with no
\* activate call since; an activate call leaves no deactivation pending; and
\* the delayed deactivation changes nothing of the menu when the item of its
\* event is not the active item.
C23_DelayedDeactivation ==
  /\ InactiveAfterQuietDelay
  /\ ActivateCancels
  /\ [][DeactivateFires /\ findMenuItem(Menu, Fired.args.target) # activeItem =>
          UNCHANGED menuVars]_vars

\* C28: at most one menu item has ariaExpanded 'true', an item has it
\* exactly if it is the active item, and the host has it exactly when an
\* active item is recorded.
C28_ExpandedIsActive ==
  /\ \A x, y \in Items : ariaExpanded[x] = "true" /\ ariaExpanded[y] = "true" => x = y
  /\ \A x \in Items : ariaExpanded[x] = "true" <=> x = activeItem
  /\ ariaExpanded["host"] = "true" <=> activeItem # Null

\* Item b is active, expanded with the host, after item a was: a is closed
\* and still carries data-animating.
C28_Witness ==
  /\ activeItem = "b"
  /\ ariaExpanded = [x \in Items \cup {"host"} |-> IF x = "a" THEN "false" ELSE "true"]
  /\ "a" \in animating

====
